---- MODULE Spec2Model ----
(***************************************************************************)
(* Verification model of the QueueAndBuffer library.                       *)
(*                                                                         *)
(*   Part I   SPSCQueueBase<T, mode>            (src/spsc_queue.hpp)       *)
(*   Part II  SPSCBlockBufferBase<mode, ...>    (src/spsc_block_buffer.hpp)*)
(*                                                                         *)
(* Each part has its own specification; the variables of the other part    *)
(* stay at their initial value.  Threads are interleaved at the level of   *)
(* accesses to shared memory (atomics, mutex, condition variable).         *)
(***************************************************************************)
EXTENDS Integers, Sequences, FiniteSets, TLC

(***************************************************************************)
(* Bounds of the model.                                                    *)
(***************************************************************************)
\* number of push() calls the queue producer makes
MaxPush == 4
\* block_size_ the buffers are constructed with
BlockSize == 3
\* sizeof(size_t), in bytes (the width of a string's length prefix)
SizeofSizeT == 2
\* largest datum of a typed write/read (at most BlockSize)
MaxDatum == 2
\* number of data the buffer producer writes
MaxData == 3
\* number of strings the buffer producer writes
MaxStrings == 2
\* number of bytes the input file descriptor delivers
MaxFd == 7
\* number of rounds of fill, drain and clear_preserved
MaxRounds == 7
\* number of rounds after which the allocation of blocks is to have stopped
FirstRounds == 4
\* notify_interval of SPSCBlockBufferCVTimeout
NotifyInterval == 2
\* wait_spin_cv_num of SPSCBlockBufferSpinCV
WaitSpinCvNum == 1

Null == 0

VARIABLES
    \* ---- Part I: SPSCQueueBase ----
    qmode,        \* template parameter mode: 0 wait-free, 1 spin, 2 CV
    head_,        \* Node* head_
    tail_,        \* Node* tail_
    free_head_,   \* Node* free_head_
    free_tail_,   \* Node* free_tail_
    next,         \* Node::next of every node
    obj,          \* Node::obj of every node (0: default constructed)
    nalloc,       \* number of nodes obtained from operator new
    life,         \* per node: constructions of obj minus destructions of obj
    q_mtx,        \* owner of mtx_: "free", "prod" or "cons"
    npush,        \* number of push() calls started
    qp_pc,        \* producer's position inside push()
    qp_fle,       \* producer's result of free_list_empty()
    qc_pc,        \* consumer's position inside empty()/front()/pop()
    qc_op,        \* the call the consumer is in: "none", "front", "pop"
    qc_known,     \* consumer saw empty() = false and has not popped since
    lastFront,    \* value returned by front() since the last pop (0: none)
    got,          \* values carried by the elements removed by pop(), in order
    \* ---- Part II: SPSCBlockBufferBase ----
    mode,             \* template parameter mode, 0 .. 5
    buf_,             \* the segments, front first: [id, blk, end]
    free_list_,       \* blocks waiting for reuse, front first
    preserved_list_,  \* drained segments not yet released: [blk, end]
    mem,              \* mem[b][i]: byte i of block b
    rpos_,            \* read offset in the front segment
    wpos_,            \* id of the segment whose end field wpos_ points to
    wpos_private_,    \* write offset in the back segment
    one_block_left_,  \* consumer's flag
    notify_counter,   \* calls of notify() since the last signal (mode 4)
    eventfd_,         \* value of the eventfd counter (mode 5)
    mtx_,             \* owner of mtx_: "free" or "cons"
    P,                \* producer's call: position and local variables
    C,                \* consumer's call: position and local variables
    H,                \* history of the run (what was written, read, released)
    \* ---- Part III: BlockBuffer ----
    bb                \* a BlockBuffer given the calls the SPSCBlockBuffer gets

qvars == <<qmode, head_, tail_, free_head_, free_tail_, next, obj, nalloc, life,
           q_mtx, npush, qp_pc, qp_fle, qc_pc, qc_op, qc_known, lastFront, got>>

bvars == <<mode, buf_, free_list_, preserved_list_, mem, rpos_, wpos_,
           wpos_private_, one_block_left_, notify_counter, eventfd_, mtx_,
           P, C, H, bb>>

vars == <<qvars, bvars>>

(***************************************************************************)
(* Part I.  SPSCQueueBase                                                  *)
(***************************************************************************)
QModes == {0, 1, 2}

\* nodes the program can ever allocate: two by the constructor, one per push;
\* Null is in the domain so that following a null pointer reads no node
QNodes == 0 .. (MaxPush + 2)

\* SPSCQueueBase(): head_ = tail_ = new Node(); free_head_ = free_tail_ = new Node()
QInit ==
    /\ qmode \in QModes
    /\ head_ = 1 /\ tail_ = 1
    /\ free_head_ = 2 /\ free_tail_ = 2
    /\ next = [n \in QNodes |-> Null]
    /\ obj = [n \in QNodes |-> 0]
    /\ nalloc = 2
    /\ life = [n \in QNodes |-> IF n \in {1, 2} THEN 1 ELSE 0]
    /\ q_mtx = "free"
    /\ npush = 0
    /\ qp_pc = "idle" /\ qp_fle = FALSE
    /\ qc_pc = "idle" /\ qc_op = "none" /\ qc_known = FALSE
    /\ lastFront = 0
    /\ got = <<>>

\* empty(): head_ == acquire-load(tail_)
q_empty == head_ = tail_

\* free_list_empty(): free_head_ == acquire-load(free_tail_)
free_list_empty == free_head_ = free_tail_

\* a push() that takes a node from the freelist without a look at free_tail_
QPushStartNoCheck ==
    /\ UNCHANGED bvars
    /\ UNCHANGED life
    /\ qp_pc = "idle"
    /\ npush < MaxPush
    /\ npush' = npush + 1
    /\ qp_fle' = FALSE
    /\ qp_pc' = "link"
    /\ UNCHANGED <<qmode, head_, tail_, free_head_, free_tail_, next, obj,
                   nalloc, q_mtx, qc_pc, qc_op, qc_known, lastFront, got>>

\* push(obj), line 76: the producer evaluates free_list_empty()
QPushStart ==
    /\ UNCHANGED bvars
    /\ UNCHANGED life
    /\ qp_pc = "idle"
    /\ npush < MaxPush
    /\ npush' = npush + 1
    /\ qp_fle' = free_list_empty
    /\ qp_pc' = "link"
    /\ UNCHANGED <<qmode, head_, tail_, free_head_, free_tail_, next, obj,
                   nalloc, q_mtx, qc_pc, qc_op, qc_known, lastFront, got>>

\* a push() that takes the freelist node and leaves free_head_ where it was
QPushLinkNoAdvance ==
    /\ UNCHANGED bvars
    /\ qp_pc = "link"
    /\ IF qp_fle
          THEN /\ nalloc' = nalloc + 1
               /\ next' = [next EXCEPT ![tail_] = nalloc + 1, ![nalloc + 1] = Null]
               /\ obj' = [obj EXCEPT ![nalloc + 1] = npush]
               /\ life' = [life EXCEPT ![nalloc + 1] = @ + 1]
               /\ qp_pc' = "publish"
          ELSE /\ next' = [next EXCEPT ![tail_] = free_head_]
               /\ qp_pc' = "construct"
               /\ UNCHANGED <<nalloc, obj, life>>
    /\ UNCHANGED <<qmode, head_, tail_, free_head_, free_tail_, q_mtx, npush,
                   qp_fle, qc_pc, qc_op, qc_known, lastFront, got>>

\* push(obj), lines 76-80: tail_->next = new Node(nullptr, obj), or the node
\* at free_head_ is stored into tail_->next and free_head_ advances
QPushLink ==
    /\ UNCHANGED bvars
    /\ qp_pc = "link"
    /\ IF qp_fle
          THEN /\ nalloc' = nalloc + 1
               /\ next' = [next EXCEPT ![tail_] = nalloc + 1, ![nalloc + 1] = Null]
               /\ obj' = [obj EXCEPT ![nalloc + 1] = npush]
               /\ life' = [life EXCEPT ![nalloc + 1] = @ + 1]
               /\ qp_pc' = "publish"
               /\ UNCHANGED free_head_
          ELSE /\ free_head_' = next[free_head_]
               /\ next' = [next EXCEPT ![tail_] = free_head_]
               /\ qp_pc' = "construct"
               /\ UNCHANGED <<nalloc, obj, life>>
    /\ UNCHANGED <<qmode, head_, tail_, free_tail_, q_mtx, npush, qp_fle,
                   qc_pc, qc_op, qc_known, lastFront, got>>

\* the node a push() has linked behind the last node and not published yet
QPending == IF qp_pc \in {"construct", "publish"} THEN next[tail_] ELSE Null

\* a push() that leaves the node taken from the freelist as it finds it
QPushConstructSkip ==
    /\ UNCHANGED bvars
    /\ qp_pc = "construct"
    /\ qp_pc' = "publish"
    /\ UNCHANGED <<qmode, head_, tail_, free_head_, free_tail_, next, obj,
                   nalloc, life, q_mtx, npush, qp_fle, qc_pc, qc_op, qc_known,
                   lastFront, got>>

\* push(obj), line 81: new (tail_->next) Node(nullptr, obj) constructs the
\* node taken from the freelist in place
QPushConstruct ==
    /\ UNCHANGED bvars
    /\ qp_pc = "construct"
    /\ obj' = [obj EXCEPT ![next[tail_]] = npush]
    /\ next' = [next EXCEPT ![next[tail_]] = Null]
    /\ life' = [life EXCEPT ![next[tail_]] = @ + 1]
    /\ qp_pc' = "publish"
    /\ UNCHANGED <<qmode, head_, tail_, free_head_, free_tail_, nalloc, q_mtx,
                   npush, qp_fle, qc_pc, qc_op, qc_known, lastFront, got>>

\* a push() whose store of tail_ does not take mtx_
QPushPublishNoLock ==
    /\ UNCHANGED bvars
    /\ UNCHANGED life
    /\ qp_pc = "publish"
    /\ tail_' = next[tail_]
    /\ qp_pc' = IF qmode = 2 THEN "notify" ELSE "idle"
    /\ UNCHANGED <<qmode, head_, free_head_, free_tail_, next, obj, nalloc,
                   q_mtx, npush, qp_fle, qc_pc, qc_op, qc_known, lastFront, got>>

\* push(obj), lines 84-92: release-store tail_ = tail_->next; in mode 2 the
\* store is made with mtx_ held and followed by cv_.notify_one()
QPushPublish ==
    /\ UNCHANGED bvars
    /\ UNCHANGED life
    /\ qp_pc = "publish"
    /\ qmode = 2 => q_mtx = "free"
    /\ tail_' = next[tail_]
    /\ qp_pc' = IF qmode = 2 THEN "notify" ELSE "idle"
    /\ UNCHANGED <<qmode, head_, free_head_, free_tail_, next, obj, nalloc,
                   q_mtx, npush, qp_fle, qc_pc, qc_op, qc_known, lastFront, got>>

\* push(obj), line 89: cv_.notify_one() wakes the consumer if it is waiting
QPushNotify ==
    /\ UNCHANGED bvars
    /\ UNCHANGED life
    /\ qp_pc = "notify"
    /\ qp_pc' = "idle"
    /\ qc_pc' = IF qc_pc = "asleep" THEN "woken" ELSE qc_pc
    /\ UNCHANGED <<qmode, head_, tail_, free_head_, free_tail_, next, obj,
                   nalloc, q_mtx, npush, qp_fle, qc_op, qc_known, lastFront, got>>

\* the consumer calls empty() (mode 0 callers must do so before front/pop)
QEmptyCall ==
    /\ UNCHANGED bvars
    /\ UNCHANGED life
    /\ qc_pc = "idle"
    /\ qc_known' = ~q_empty
    /\ UNCHANGED <<qmode, head_, tail_, free_head_, free_tail_, next, obj,
                   nalloc, q_mtx, npush, qp_pc, qp_fle, qc_pc, qc_op,
                   lastFront, got>>

\* the consumer enters front() or pop(); in wait-free mode only when it knows
\* the queue is not empty; pop() of this consumer follows at most one front()
QCall(op) ==
    /\ UNCHANGED bvars
    /\ UNCHANGED life
    /\ qc_pc = "idle"
    /\ Len(got) < MaxPush
    /\ qmode = 0 => qc_known
    /\ op = "front" => lastFront = 0
    /\ qc_op' = op
    /\ qc_pc' = "check"
    /\ UNCHANGED <<qmode, head_, tail_, free_head_, free_tail_, next, obj,
                   nalloc, q_mtx, npush, qp_pc, qp_fle, qc_known, lastFront, got>>

\* pop()/front(), lines 140-145 and 156-161: the test that selects the wait
QWaitCheck ==
    /\ UNCHANGED bvars
    /\ UNCHANGED life
    /\ qc_pc = "check"
    /\ qc_pc' = CASE qmode = 2 /\ q_empty -> "lock"
                  [] qmode = 1 /\ q_empty -> "check"
                  [] OTHER -> "body"
    /\ UNCHANGED <<qmode, head_, tail_, free_head_, free_tail_, next, obj,
                   nalloc, q_mtx, npush, qp_pc, qp_fle, qc_op, qc_known,
                   lastFront, got>>

\* std::unique_lock<std::mutex> lk(mtx_), also on return from cv_.wait
QLock ==
    /\ UNCHANGED bvars
    /\ UNCHANGED life
    /\ qc_pc \in {"lock", "woken"}
    /\ q_mtx = "free"
    /\ q_mtx' = "cons"
    /\ qc_pc' = "pred"
    /\ UNCHANGED <<qmode, head_, tail_, free_head_, free_tail_, next, obj,
                   nalloc, npush, qp_pc, qp_fle, qc_op, qc_known, lastFront, got>>

\* cv_.wait(lk, pred): the predicate !empty() is evaluated with mtx_ held;
\* when it holds the wait is over and lk's destructor releases mtx_
QWaitPred ==
    /\ UNCHANGED bvars
    /\ UNCHANGED life
    /\ qc_pc = "pred"
    /\ IF q_empty
          THEN qc_pc' = "sleep" /\ UNCHANGED q_mtx
          ELSE qc_pc' = "body" /\ q_mtx' = "free"
    /\ UNCHANGED <<qmode, head_, tail_, free_head_, free_tail_, next, obj,
                   nalloc, npush, qp_pc, qp_fle, qc_op, qc_known, lastFront, got>>

\* cv_.wait(lk): releases mtx_ and blocks on cv_, atomically
QSleep ==
    /\ UNCHANGED bvars
    /\ UNCHANGED life
    /\ qc_pc = "sleep"
    /\ q_mtx' = "free"
    /\ qc_pc' = "asleep"
    /\ UNCHANGED <<qmode, head_, tail_, free_head_, free_tail_, next, obj,
                   nalloc, npush, qp_pc, qp_fle, qc_op, qc_known, lastFront, got>>

\* a condition variable may wake without a notification
QSpurious ==
    /\ UNCHANGED bvars
    /\ UNCHANGED life
    /\ qc_pc = "asleep"
    /\ qc_pc' = "woken"
    /\ UNCHANGED <<qmode, head_, tail_, free_head_, free_tail_, next, obj,
                   nalloc, q_mtx, npush, qp_pc, qp_fle, qc_op, qc_known,
                   lastFront, got>>

\* front(), line 163: return head_->next->obj
QFrontBody ==
    /\ UNCHANGED bvars
    /\ UNCHANGED life
    /\ qc_pc = "body" /\ qc_op = "front"
    /\ lastFront' = obj[next[head_]]
    /\ qc_pc' = "idle" /\ qc_op' = "none"
    /\ UNCHANGED <<qmode, head_, tail_, free_head_, free_tail_, next, obj,
                   nalloc, q_mtx, npush, qp_pc, qp_fle, qc_known, got>>

\* pop(), lines 147-150: the old head_ is appended behind free_tail_, head_
\* advances, the obj of the old head_ is destroyed and its next cleared
QPopUnlink ==
    /\ UNCHANGED bvars
    /\ life' = [life EXCEPT ![head_] = @ - 1]
    /\ qc_pc = "body" /\ qc_op = "pop"
    /\ got' = Append(got, obj[next[head_]])
    /\ head_' = next[head_]
    /\ next' = [next EXCEPT ![free_tail_] = head_, ![head_] = Null]
    /\ lastFront' = 0
    /\ qc_pc' = "release"
    /\ UNCHANGED <<qmode, tail_, free_head_, free_tail_, obj, nalloc, q_mtx,
                   npush, qp_pc, qp_fle, qc_op, qc_known>>

\* pop(), line 151: release-store free_tail_ = free_tail_->next
QPopRelease ==
    /\ UNCHANGED bvars
    /\ UNCHANGED life
    /\ qc_pc = "release"
    /\ free_tail_' = next[free_tail_]
    /\ qc_pc' = "idle" /\ qc_op' = "none"
    /\ qc_known' = FALSE
    /\ UNCHANGED <<qmode, head_, tail_, free_head_, next, obj, nalloc, q_mtx,
                   npush, qp_pc, qp_fle, lastFront, got>>

\* the nodes from a to b along next
RECURSIVE QChain(_, _, _)
QChain(a, b, fuel) ==
    IF a = Null \/ fuel = 0 THEN {}
    ELSE IF a = b THEN {a}
    ELSE {a} \cup QChain(next[a], b, fuel - 1)

\* ~SPSCQueueBase(), lines 64-72, with no push or pop in progress: every node
\* from head_ and every node from free_head_, along next to the null pointer,
\* is deleted, which destroys its obj
QDestroy ==
    /\ UNCHANGED bvars
    /\ qp_pc = "idle" /\ qc_pc = "idle"
    /\ life' = [n \in QNodes |->
                  IF n \in QChain(head_, Null, MaxPush + 2)
                            \cup QChain(free_head_, Null, MaxPush + 2)
                     THEN life[n] - 1 ELSE life[n]]
    /\ head_' = Null /\ free_head_' = Null
    /\ qp_pc' = "destroyed" /\ qc_pc' = "destroyed"
    /\ UNCHANGED <<qmode, tail_, free_tail_, next, obj, nalloc, q_mtx, npush,
                   qp_fle, qc_op, qc_known, lastFront, got>>

\* the main list: head_ to tail_, and the node a push has linked behind tail_
QMainNodes ==
    QChain(head_, tail_, MaxPush + 2) \cup ({QPending} \ {Null})

\* the freelist: free_head_ to free_tail_, and the node a pop has linked
\* behind free_tail_
QFreeNodes ==
    QChain(free_head_, free_tail_, MaxPush + 2)
        \cup (IF qc_pc = "release" THEN {next[free_tail_]} ELSE {})

\* the fields of nodes that the producer's next statements read ("r") or
\* write ("w") without an atomic operation
QProducerAccess ==
    CASE qp_pc = "link" /\ qp_fle -> {<<tail_, "next", "w">>}
      [] qp_pc = "link" /\ ~qp_fle ->
            {<<tail_, "next", "w">>, <<free_head_, "next", "r">>}
      [] qp_pc = "construct" ->
            {<<tail_, "next", "r">>, <<next[tail_], "obj", "w">>,
             <<next[tail_], "next", "w">>}
      [] qp_pc = "publish" -> {<<tail_, "next", "r">>}
      [] OTHER -> {}

\* the same for the consumer; the reference front() returned is in use until
\* the pop() that follows
QConsumerAccess ==
    (CASE qc_pc = "body" /\ qc_op = "front" ->
             {<<head_, "next", "r">>, <<next[head_], "obj", "r">>}
       [] qc_pc = "body" /\ qc_op = "pop" ->
             {<<free_tail_, "next", "w">>, <<head_, "next", "r">>,
              <<head_, "obj", "w">>, <<head_, "next", "w">>}
       [] qc_pc = "release" -> {<<free_tail_, "next", "r">>}
       [] OTHER -> {})
    \cup (IF lastFront # 0 THEN {<<next[head_], "obj", "w">>} ELSE {})

\* an access of one thread and an access of the other to the same field of
\* the same node, one of them a write
QConflict ==
    \E a \in QProducerAccess, b \in QConsumerAccess :
        a[1] = b[1] /\ a[2] = b[2] /\ "w" \in {a[3], b[3]}

QProducer ==
    QPushStart \/ QPushLink \/ QPushConstruct \/ QPushPublish \/ QPushNotify

QConsumerStep ==
    \/ QWaitCheck \/ QLock \/ QWaitPred \/ QSleep
    \/ QFrontBody \/ QPopUnlink \/ QPopRelease

QConsumer ==
    \/ QEmptyCall
    \/ \E op \in {"front", "pop"} : QCall(op)
    \/ QConsumerStep
    \/ QSpurious

(***************************************************************************)
(* Part II.  SPSCBlockBufferBase                                           *)
(*                                                                         *)
(* buf_, free_list_ and preserved_list_ are SPSCQueue objects (mode 0);    *)
(* they are used here through push/emplace, front, back, pop and empty,    *)
(* whose FIFO behaviour is the subject of Part I, and appear as sequences. *)
(* The address of a segment's end field (what wpos_ holds) is the          *)
(* segment's id.                                                           *)
(***************************************************************************)
Modes == 0 .. 5

\* a byte of a block that the program has never written: an indeterminate
\* value, equal to no byte the producer wrote
Uninit == -1

\* size_t arithmetic is modulo 2^(8 * sizeof(size_t))
SizeTModulus == 256 ^ SizeofSizeT

\* a - b in size_t
USub(a, b) == IF a >= b THEN a - b ELSE a - b + SizeTModulus

Range(q) == {q[i] : i \in 1 .. Len(q)}
Min(a, b) == IF a <= b THEN a ELSE b

\* the object representation of a size_t (little endian), as write<size_t> copies it
Enc(n) == [i \in 1 .. SizeofSizeT |-> (n \div (256 ^ (i - 1))) % 256]

RECURSIVE DecFrom(_, _)
DecFrom(bs, i) ==
    IF i > Len(bs) THEN 0 ELSE bs[i] * (256 ^ (i - 1)) + DecFrom(bs, i + 1)

\* the size_t that *read<size_t>() yields for the bytes bs
Dec(bs) == DecFrom(bs, 1)

Front(q) == q[1]
Back(q) == q[Len(q)]
IsPrefix(s, t) == Len(s) <= Len(t) /\ \A i \in 1 .. Len(s) : s[i] = t[i]

RECURSIVE SumEnds(_)
SumEnds(q) == IF q = <<>> THEN 0 ELSE Front(q).end + SumEnds(Tail(q))

\* new char[block_size_]
NewBlock == [i \in 1 .. BlockSize |-> Uninit]

\* the bytes at offsets off .. off+n-1 of block b; past the end of the block
\* the memory is not the buffer's and its content is indeterminate
Bytes(b, off, n) ==
    [i \in 1 .. n |-> IF off + i <= BlockSize THEN mem[b][off + i] ELSE Uninit]

\* std::copy(data, ..., block b + off)
Copy(b, off, data) ==
    [mem EXCEPT ![b] = [i \in 1 .. BlockSize |->
        IF i > off /\ i <= off + Len(data) THEN data[i - off] ELSE @[i]]]

PIdle == [pc |-> "idle", call |-> "none", todo |-> <<>>, ret |-> "none",
          nnotify |-> 0, ntf |-> FALSE, start |-> 0, slen |-> 0,
          total |-> 0, cont |-> FALSE, max |-> -1, segs |-> {},
          err |-> FALSE, moved |-> 0, stored |-> FALSE, newb |-> 0]

CIdle == [pc |-> "idle", call |-> "none", size |-> 0, wait |-> "none",
          spin |-> 0, timedout |-> FALSE, total |-> 0, len |-> 0,
          cleared_len |-> 0, ret |-> "none", err |-> FALSE,
          moved |-> 0, snap |-> <<>>, was |-> FALSE, unread |-> FALSE,
          res |-> FALSE, ptr |-> 0]

HInit == [written |-> <<>>, readout |-> <<>>, sizes |-> <<>>, nw |-> 0,
          nr |-> 0, notified |-> 0, ptrs |-> {}, cleared_total |-> 0,
          popped_bytes |-> 0, nsegs |-> 1, fdin |-> <<>>, fdout |-> <<>>,
          use |-> "none", strs |-> <<>>, strsout |-> <<>>, quiet |-> FALSE,
          round |-> 0, fill |-> 0, drained |-> 0, allocs |-> <<>>]

\* (size_t)-1
SizeTMax == SizeTModulus - 1

\* BlockBuffer(block_size): one block whose end is (size_t)-1, rpos_ = wpos_ = 0
BBInit == [buf_ |-> <<[blk |-> 1, end |-> SizeTMax]>>, free_list_ |-> <<>>,
           preserved_list_ |-> <<>>, mem |-> <<NewBlock>>, rpos_ |-> 0,
           wpos_ |-> 0, written |-> 0, readout |-> <<>>, fdout |-> <<>>,
           call |-> "none", unread |-> 0, total |-> 0, len |-> 0,
           snap |-> <<>>, empty_front |-> FALSE, ub |-> FALSE]

\* init(block_size): one block, wpos_ = &buf_.back().second; next to it, a
\* BlockBuffer after its constructor
BInitMode(m) ==
    /\ bb = BBInit
    /\ mode = m
    /\ buf_ = <<[id |-> 1, blk |-> 1, end |-> 0]>>
    /\ free_list_ = <<>>
    /\ preserved_list_ = <<>>
    /\ mem = <<NewBlock>>
    /\ rpos_ = 0
    /\ wpos_ = 1
    /\ wpos_private_ = 0
    /\ one_block_left_ = TRUE
    /\ notify_counter = 0
    /\ eventfd_ = 0
    /\ mtx_ = "free"
    /\ P = PIdle
    /\ C = CIdle

\* the buffer of a run that exercises the queue alone
BIdle == BInitMode(0) /\ H = HInit

\* the queue of a run that exercises the buffer alone
QIdle ==
    /\ qmode = 0
    /\ head_ = 1 /\ tail_ = 1
    /\ free_head_ = 2 /\ free_tail_ = 2
    /\ next = [n \in QNodes |-> Null]
    /\ obj = [n \in QNodes |-> 0]
    /\ nalloc = 2
    /\ life = [n \in QNodes |-> IF n \in {1, 2} THEN 1 ELSE 0]
    /\ q_mtx = "free"
    /\ npush = 0
    /\ qp_pc = "idle" /\ qp_fle = FALSE
    /\ qc_pc = "idle" /\ qc_op = "none" /\ qc_known = FALSE
    /\ lastFront = 0
    /\ got = <<>>

\* what every step of the buffer leaves alone
BFrame == UNCHANGED <<qvars, mode, bb>>

\* check_one_block_left(): &buf_.front().second == acquire-load(wpos_)
check_one_block_left == Front(buf_).id = wpos_

(***************************************************************************)
(* Producer                                                                *)
(***************************************************************************)
\* the producer's position for the first item of todo
Dispatch(todo) ==
    IF todo = <<>> THEN "idle"
    ELSE IF Front(todo).kind = "write" THEN "write" ELSE "cont"

\* the end of one item: the next item of the call, or the return of the call
PFinish(p, h) ==
    LET rest == Tail(p.todo) IN
    IF rest # <<>>
       THEN /\ P' = [p EXCEPT !.todo = rest, !.pc = Dispatch(rest)]
            /\ H' = h
       ELSE /\ P' = [p EXCEPT !.todo = <<>>, !.pc = "idle"]
            /\ H' = [h EXCEPT !.nw = @ + 1]

\* write(write_start, write_end, notify), lines 88-99: one turn of the loop, or
\* the test of notify after it
PWrite ==
    /\ P.pc = "write"
    /\ LET it == Front(P.todo) IN
       IF it.data = <<>>
          THEN /\ IF it.notify
                     THEN P' = [P EXCEPT !.pc = "notify"] /\ H' = H
                     ELSE PFinish(P, H)
               /\ UNCHANGED <<mem, wpos_private_>>
          ELSE IF wpos_private_ = BlockSize
          THEN /\ P' = [P EXCEPT !.pc = "add_block", !.ret = "write"]
               /\ UNCHANGED <<mem, wpos_private_, H>>
          ELSE LET to_write == Min(Len(it.data), BlockSize - wpos_private_)
                   chunk == SubSeq(it.data, 1, to_write)
               IN /\ mem' = Copy(Back(buf_).blk, wpos_private_, chunk)
                  /\ wpos_private_' = wpos_private_ + to_write
                  /\ P' = [P EXCEPT !.todo[1].data =
                               SubSeq(it.data, to_write + 1, Len(it.data)),
                                    !.segs = @ \cup {Back(buf_).id}]
                  /\ H' = [H EXCEPT !.written = @ \o chunk]
    /\ UNCHANGED <<buf_, free_list_, preserved_list_, rpos_, wpos_,
                   one_block_left_, notify_counter, eventfd_, mtx_, C>>
    /\ BFrame

\* a write_cont that asks for a block only when the tail block is full
PWriteContNoRoom ==
    /\ P.pc = "cont"
    /\ LET it == Front(P.todo) IN
       IF it.data = <<>>
          THEN PFinish(P, H)
          ELSE /\ P' = [P EXCEPT !.pc =
                          IF wpos_private_ = BlockSize
                             THEN "add_block" ELSE "cont_copy",
                          !.ret = "cont_copy"]
               /\ H' = H
    /\ UNCHANGED <<buf_, free_list_, preserved_list_, mem, rpos_, wpos_,
                   wpos_private_, one_block_left_, notify_counter, eventfd_,
                   mtx_, C>>
    /\ BFrame

\* write_cont(write_start, write_end, notify), lines 161-166: the early return
\* and add_block_if_needed(to_write)
PWriteCont ==
    /\ P.pc = "cont"
    /\ LET it == Front(P.todo) IN
       IF it.data = <<>>
          THEN PFinish(P, H)
          ELSE /\ P' = [P EXCEPT !.pc =
                          IF Len(it.data) > USub(BlockSize, wpos_private_)
                             THEN "add_block" ELSE "cont_copy",
                          !.ret = "cont_copy"]
               /\ H' = H
    /\ UNCHANGED <<buf_, free_list_, preserved_list_, mem, rpos_, wpos_,
                   wpos_private_, one_block_left_, notify_counter, eventfd_,
                   mtx_, C>>
    /\ BFrame

\* write_cont(write_start, write_end, notify), lines 168-174: the copy and the
\* test of notify
PWriteContCopy ==
    /\ P.pc = "cont_copy"
    /\ LET it == Front(P.todo)
           h == [H EXCEPT !.written = @ \o it.data]
       IN /\ mem' = Copy(Back(buf_).blk, wpos_private_, it.data)
          /\ wpos_private_' = wpos_private_ + Len(it.data)
          /\ LET p == [P EXCEPT !.segs = @ \cup {Back(buf_).id}] IN
             IF it.notify
                THEN P' = [p EXCEPT !.pc = "notify"] /\ H' = h
                ELSE PFinish(p, h)
    /\ UNCHANGED <<buf_, free_list_, preserved_list_, rpos_, wpos_,
                   one_block_left_, notify_counter, eventfd_, mtx_, C>>
    /\ BFrame

\* the producer calls ensure_cont(n)
PCallEnsure(n) ==
    /\ P.pc = "idle"
    /\ H.nw < MaxData
    /\ P' = [PIdle EXCEPT !.call = "ensure_cont", !.slen = n, !.pc = "ensure"]
    /\ UNCHANGED <<buf_, free_list_, preserved_list_, mem, rpos_, wpos_,
                   wpos_private_, one_block_left_, notify_counter, eventfd_,
                   mtx_, C, H>>
    /\ BFrame

\* ensure_cont(size), lines 301-304: add_block_if_needed(size), then the
\* address of offset wpos_private_ of the back block is returned
PEnsureCont ==
    /\ P.pc = "ensure"
    /\ P' = IF P.slen > USub(BlockSize, wpos_private_)
               THEN [P EXCEPT !.pc = "add_block", !.ret = "idle"]
               ELSE [P EXCEPT !.pc = "idle"]
    /\ UNCHANGED <<buf_, free_list_, preserved_list_, mem, rpos_, wpos_,
                   wpos_private_, one_block_left_, notify_counter, eventfd_,
                   mtx_, C, H>>
    /\ BFrame

\* add_block(), lines 331-332: release-store *wpos_ = wpos_private_
PAddBlockClose ==
    /\ P.pc = "add_block"
    /\ buf_' = [buf_ EXCEPT ![Len(buf_)].end = wpos_private_]
    /\ wpos_private_' = 0
    /\ P' = [P EXCEPT !.pc = "add_block_link"]
    /\ UNCHANGED <<free_list_, preserved_list_, mem, rpos_, wpos_,
                   one_block_left_, notify_counter, eventfd_, mtx_, C, H>>
    /\ BFrame

\* add_block(), lines 334-339: a block from the freelist, or a new one, is
\* emplaced at the back of buf_ with end 0
PAddBlockLink ==
    /\ P.pc = "add_block_link"
    /\ IF free_list_ = <<>>
          THEN /\ mem' = Append(mem, NewBlock)
               /\ buf_' = Append(buf_, [id |-> H.nsegs + 1, blk |-> Len(mem) + 1,
                                        end |-> 0])
               /\ UNCHANGED free_list_
          ELSE /\ buf_' = Append(buf_, [id |-> H.nsegs + 1, blk |-> Front(free_list_),
                                        end |-> 0])
               /\ free_list_' = Tail(free_list_)
               /\ UNCHANGED mem
    /\ H' = [H EXCEPT !.nsegs = @ + 1]
    /\ P' = [P EXCEPT !.pc = "add_block_wpos"]
    /\ UNCHANGED <<preserved_list_, rpos_, wpos_, wpos_private_,
                   one_block_left_, notify_counter, eventfd_, mtx_, C>>
    /\ BFrame

\* add_block(), line 340: release-store wpos_ = &buf_.back().second
PAddBlockWpos ==
    /\ P.pc = "add_block_wpos"
    /\ wpos_' = Back(buf_).id
    /\ P' = [P EXCEPT !.pc = P.ret, !.ret = "none"]
    /\ UNCHANGED <<buf_, free_list_, preserved_list_, mem, rpos_,
                   wpos_private_, one_block_left_, notify_counter, eventfd_,
                   mtx_, C, H>>
    /\ BFrame

\* the data whose bytes a notify() made now publishes: those of the calls
\* that returned and, when a datum's call notifies, that datum
Covered == IF P.call \in {"write", "write_cont", "write_str", "write_cont_str"}
              THEN H.nw + 1 ELSE H.nw

\* whether this notify() goes on to signal cv_ or the eventfd
NotifySignals ==
    \/ mode \in {2, 3}
    \/ mode = 4 /\ notify_counter + 1 = NotifyInterval
    \/ mode = 5

\* notify(), lines 273-299: release-store *wpos_ = wpos_private_, made with
\* mtx_ held when a signal of cv_ follows; mode 4 counts the calls
PNotifyStore ==
    /\ P.pc = "notify"
    /\ (mode \in {2, 3} \/ (mode = 4 /\ notify_counter + 1 = NotifyInterval))
          => mtx_ = "free"
    /\ buf_' = [buf_ EXCEPT ![Len(buf_)].end = wpos_private_]
    /\ notify_counter' = IF mode = 4
                            THEN (IF notify_counter + 1 = NotifyInterval
                                     THEN 0 ELSE notify_counter + 1)
                            ELSE notify_counter
    /\ LET p == [P EXCEPT !.nnotify = @ + 1, !.stored = TRUE,
                          !.newb = wpos_private_ - Back(buf_).end]
           h == [H EXCEPT !.notified = Covered]
       IN IF NotifySignals
             THEN P' = [p EXCEPT !.pc = "signal"] /\ H' = h
             ELSE IF p.todo = <<>>
                     THEN P' = [p EXCEPT !.pc = "idle"] /\ H' = h
                     ELSE PFinish(p, h)
    /\ UNCHANGED <<free_list_, preserved_list_, mem, rpos_, wpos_,
                   wpos_private_, one_block_left_, eventfd_, mtx_, C>>
    /\ BFrame

\* notify(), lines 279, 288, 295: cv_.notify_one(), or the write of 1 to the
\* eventfd
PNotifySignal ==
    /\ P.pc = "signal"
    /\ IF mode = 5
          THEN eventfd_' = eventfd_ + 1 /\ C' = C
          ELSE /\ C' = IF C.pc = "asleep" THEN [C EXCEPT !.pc = "woken"] ELSE C
               /\ UNCHANGED eventfd_
    /\ IF P.todo = <<>>
          THEN P' = [P EXCEPT !.pc = "idle"] /\ H' = H
          ELSE PFinish(P, H)
    /\ UNCHANGED <<buf_, free_list_, preserved_list_, mem, rpos_, wpos_,
                   wpos_private_, one_block_left_, notify_counter, mtx_>>
    /\ BFrame

\* the values of the next n bytes the producer writes: every byte of the
\* stream is different from the others
Fresh(n) == [i \in 1 .. n |-> Len(H.written) + i]

\* the size of datum k of the run, fixed by whichever thread reaches it first
SizeChoices(k) == IF k <= Len(H.sizes) THEN {H.sizes[k]} ELSE 1 .. MaxDatum
WithSize(h, k, n) == IF k <= Len(h.sizes) THEN h ELSE [h EXCEPT !.sizes = Append(@, n)]

\* the producer calls write(begin, end, notify) or write_cont(begin, end,
\* notify) (also the typed write<T>/write_cont<T>) with a datum of n bytes
PCallWriteBody(kind, n, notify) ==
    /\ P.pc = "idle"
    /\ H.nw < MaxData
    /\ n \in SizeChoices(H.nw + 1)
    /\ P' = [PIdle EXCEPT
                !.call = IF kind = "write" THEN "write" ELSE "write_cont",
                !.todo = <<[kind |-> kind, data |-> Fresh(n), notify |-> notify]>>,
                !.ntf = notify,
                !.slen = n,
                !.pc = kind]
    /\ H' = WithSize(H, H.nw + 1, n)
    /\ UNCHANGED <<buf_, free_list_, preserved_list_, mem, rpos_, wpos_,
                   wpos_private_, one_block_left_, notify_counter, eventfd_,
                   mtx_, C>>

\* the same call on the SPSCBlockBuffer alone
PCallWrite(kind, n, notify) ==
    /\ PCallWriteBody(kind, n, notify)
    /\ BFrame

\* the producer calls write(p, p): an empty range, notify = true by default
PCallWriteNone ==
    /\ P.pc = "idle"
    /\ H.nw < MaxData
    /\ Len(H.sizes) = H.nw
    /\ P' = [PIdle EXCEPT
                !.call = "write",
                !.todo = <<[kind |-> "write", data |-> <<>>, notify |-> TRUE]>>,
                !.ntf = TRUE,
                !.pc = "write"]
    /\ H' = [H EXCEPT !.sizes = Append(@, 0)]
    /\ UNCHANGED <<buf_, free_list_, preserved_list_, mem, rpos_, wpos_,
                   wpos_private_, one_block_left_, notify_counter, eventfd_,
                   mtx_, C>>
    /\ BFrame

\* the producer calls notify() for data it wrote with notify = false
PCallNotify ==
    /\ P.pc = "idle"
    /\ H.notified < H.nw
    /\ P' = [PIdle EXCEPT !.call = "notify", !.pc = "notify"]
    /\ UNCHANGED <<buf_, free_list_, preserved_list_, mem, rpos_, wpos_,
                   wpos_private_, one_block_left_, notify_counter, eventfd_,
                   mtx_, C, H>>
    /\ BFrame

(***************************************************************************)
(* Consumer                                                                *)
(***************************************************************************)
\* offset in the stream of the byte at rpos_ of the front segment
StreamPos == H.popped_bytes + rpos_

\* the consumer calls read_cont(n) (read<T>()) or get_cont(dest, n) (get<T>())
\* for the next datum; in modes 0 and 5, which never wait, only once that
\* datum is written and notified
CCallReadBody(call, n) ==
    /\ C.pc = "idle"
    /\ H.nr < MaxData
    /\ n \in SizeChoices(H.nr + 1)
    /\ mode \in {0, 5} => H.nr + 1 <= H.notified
    /\ C' = [CIdle EXCEPT !.call = call, !.size = n, !.pc = "pbn", !.ret = "take"]
    /\ H' = WithSize(H, H.nr + 1, n)
    /\ UNCHANGED <<buf_, free_list_, preserved_list_, mem, rpos_, wpos_,
                   wpos_private_, one_block_left_, notify_counter, eventfd_,
                   mtx_, P>>

\* the same call on the SPSCBlockBuffer alone
CCallRead(call, n) ==
    /\ CCallReadBody(call, n)
    /\ BFrame

\* front segment has fewer than size bytes after rpos_ (size_t arithmetic)
FrontShort(size) == USub(Front(buf_).end, rpos_) < size

\* the predicates pop_block_if_needed waits for, lines 414 and 418
WaitPred(w, size) ==
    IF w = "P1" THEN ~(check_one_block_left /\ FrontShort(size))
                ELSE Front(buf_).end >= size

\* where the consumer goes on when wait(pred) returns
AfterWait(c) == [c EXCEPT !.pc = IF c.wait = "P1" THEN "pbn_recheck" ELSE c.ret,
                          !.wait = "none", !.spin = 0, !.timedout = FALSE]

\* a pop_block_if_needed that pops a short front segment without a look at
\* wpos_ and without a wait
pop_block_if_needed_nowait ==
    /\ C.pc = "pbn"
    /\ CASE mode \in 0 .. 4 ->
              C' = [C EXCEPT !.pc = IF FrontShort(C.size)
                                       THEN "pop_block" ELSE C.ret]
         [] OTHER -> C' = [C EXCEPT !.pc = C.ret]
    /\ UNCHANGED <<buf_, free_list_, preserved_list_, mem, rpos_, wpos_,
                   wpos_private_, one_block_left_, notify_counter, eventfd_,
                   mtx_, P, H>>
    /\ BFrame

\* pop_block_if_needed(size), lines 378-385 (mode 0) and 412-428 (modes 1-4):
\* the test that selects pop_block, a wait, or nothing; mode 5 has no branch
pop_block_if_needed ==
    /\ C.pc = "pbn"
    /\ CASE mode = 0 ->
              C' = [C EXCEPT !.pc =
                      IF one_block_left_
                         THEN (IF ~check_one_block_left /\ FrontShort(C.size)
                                  THEN "pop_block" ELSE C.ret)
                         ELSE (IF FrontShort(C.size) THEN "pop_block" ELSE C.ret)]
         [] mode \in 1 .. 4 ->
              C' = IF one_block_left_
                      THEN [C EXCEPT !.pc = "wait", !.wait = "P1"]
                      ELSE [C EXCEPT !.pc = IF FrontShort(C.size)
                                               THEN "pop_block" ELSE C.ret]
         [] OTHER -> C' = [C EXCEPT !.pc = C.ret]
    /\ UNCHANGED <<buf_, free_list_, preserved_list_, mem, rpos_, wpos_,
                   wpos_private_, one_block_left_, notify_counter, eventfd_,
                   mtx_, P, H>>
    /\ BFrame

\* a pop_block_if_needed that pops in mode 0 only when one_block_left_ is false
pop_block_if_needed_stale ==
    /\ C.pc = "pbn"
    /\ CASE mode = 0 ->
              C' = [C EXCEPT !.pc =
                      IF one_block_left_ THEN C.ret
                         ELSE (IF FrontShort(C.size) THEN "pop_block" ELSE C.ret)]
         [] mode \in 1 .. 4 ->
              C' = IF one_block_left_
                      THEN [C EXCEPT !.pc = "wait", !.wait = "P1"]
                      ELSE [C EXCEPT !.pc = IF FrontShort(C.size)
                                               THEN "pop_block" ELSE C.ret]
         [] OTHER -> C' = [C EXCEPT !.pc = C.ret]
    /\ UNCHANGED <<buf_, free_list_, preserved_list_, mem, rpos_, wpos_,
                   wpos_private_, one_block_left_, notify_counter, eventfd_,
                   mtx_, P, H>>
    /\ BFrame

\* pop_block_if_needed(size), line 415: after the first wait
CPbnRecheck ==
    /\ C.pc = "pbn_recheck"
    /\ C' = [C EXCEPT !.pc = IF FrontShort(C.size) THEN "pop_block" ELSE C.ret]
    /\ UNCHANGED <<buf_, free_list_, preserved_list_, mem, rpos_, wpos_,
                   wpos_private_, one_block_left_, notify_counter, eventfd_,
                   mtx_, P, H>>
    /\ BFrame

\* a pop_block that leaves one_block_left_ false whatever wpos_ points to
pop_block_clearflag ==
    /\ C.pc = "pop_block"
    /\ IF Len(buf_) = 1
          THEN /\ C' = [C EXCEPT !.pc = "ub"]
               /\ UNCHANGED <<buf_, preserved_list_, rpos_, one_block_left_, H>>
          ELSE /\ preserved_list_' = Append(preserved_list_,
                        [blk |-> Front(buf_).blk, end |-> Front(buf_).end])
               /\ buf_' = Tail(buf_)
               /\ rpos_' = 0
               /\ one_block_left_' = FALSE
               /\ H' = [H EXCEPT !.popped_bytes = @ + Front(buf_).end]
               /\ C' = IF C.call = "output_to_fd"
                          THEN [C EXCEPT !.pc = C.ret]
                          ELSE IF mode \in 1 .. 4 /\ buf_[2].id = wpos_
                          THEN [C EXCEPT !.pc = "wait", !.wait = "P2"]
                          ELSE [C EXCEPT !.pc = C.ret]
    /\ UNCHANGED <<free_list_, mem, wpos_, wpos_private_, notify_counter,
                   eventfd_, mtx_, P>>
    /\ BFrame

\* pop_block(), lines 359-364; in modes 1-4 a wait for the new front segment
\* follows when it is the last one (lines 417-419, 424-426).  With a single
\* segment, buf_.front() after the pop is the obj of a null node.
pop_block ==
    /\ C.pc = "pop_block"
    /\ IF Len(buf_) = 1
          THEN /\ C' = [C EXCEPT !.pc = "ub"]
               /\ UNCHANGED <<buf_, preserved_list_, rpos_, one_block_left_, H>>
          ELSE /\ preserved_list_' = Append(preserved_list_,
                        [blk |-> Front(buf_).blk, end |-> Front(buf_).end])
               /\ buf_' = Tail(buf_)
               /\ rpos_' = 0
               /\ one_block_left_' = (buf_[2].id = wpos_)
               /\ H' = [H EXCEPT !.popped_bytes = @ + Front(buf_).end]
               /\ C' = IF C.call = "output_to_fd"
                          THEN [C EXCEPT !.pc = C.ret]
                          ELSE IF mode \in 1 .. 4 /\ buf_[2].id = wpos_
                          THEN [C EXCEPT !.pc = "wait", !.wait = "P2"]
                          ELSE [C EXCEPT !.pc = C.ret]
    /\ UNCHANGED <<free_list_, mem, wpos_, wpos_private_, notify_counter,
                   eventfd_, mtx_, P>>
    /\ BFrame

\* wait(pred), lines 433-455, outside mtx_: the spin of mode 1, the first test
\* of mode 2, the wait_spin_cv_num tests of mode 3, the loop test of mode 4
CWaitTest ==
    /\ C.pc = "wait"
    /\ LET holds == WaitPred(C.wait, C.size) IN
       C' = CASE mode = 3 /\ C.spin >= WaitSpinCvNum -> [C EXCEPT !.pc = "lock"]
              [] holds -> AfterWait(C)
              [] mode = 1 -> C
              [] mode = 3 -> [C EXCEPT !.spin = @ + 1]
              [] OTHER -> [C EXCEPT !.pc = "lock"]
    /\ UNCHANGED <<buf_, free_list_, preserved_list_, mem, rpos_, wpos_,
                   wpos_private_, one_block_left_, notify_counter, eventfd_,
                   mtx_, P, H>>
    /\ BFrame

\* std::unique_lock<std::mutex> lk(mtx_), and the lock taken again when
\* cv_.wait / cv_.wait_for wakes
CWaitLock ==
    /\ C.pc \in {"lock", "woken"}
    /\ mtx_ = "free"
    /\ mtx_' = "cons"
    /\ C' = [C EXCEPT !.pc = "pred"]
    /\ UNCHANGED <<buf_, free_list_, preserved_list_, mem, rpos_, wpos_,
                   wpos_private_, one_block_left_, notify_counter, eventfd_,
                   P, H>>
    /\ BFrame

\* cv_.wait(lk, pred) / cv_.wait_for(lk, timeout, pred): the predicate, tested
\* with mtx_ held.  wait_for returns after a timeout whatever the predicate
\* is, and mode 4 then tests its loop condition again.
CWaitPred ==
    /\ C.pc = "pred"
    /\ LET holds == WaitPred(C.wait, C.size) IN
       IF holds \/ (mode = 4 /\ C.timedout)
          THEN /\ mtx_' = "free"
               /\ C' = IF mode = 4
                          THEN [C EXCEPT !.pc = "wait", !.timedout = FALSE]
                          ELSE AfterWait(C)
          ELSE /\ C' = [C EXCEPT !.pc = "sleep"]
               /\ UNCHANGED mtx_
    /\ UNCHANGED <<buf_, free_list_, preserved_list_, mem, rpos_, wpos_,
                   wpos_private_, one_block_left_, notify_counter, eventfd_,
                   P, H>>
    /\ BFrame

\* cv_.wait(lk): mtx_ is released and the consumer blocks, atomically
CWaitSleep ==
    /\ C.pc = "sleep"
    /\ mtx_' = "free"
    /\ C' = [C EXCEPT !.pc = "asleep"]
    /\ UNCHANGED <<buf_, free_list_, preserved_list_, mem, rpos_, wpos_,
                   wpos_private_, one_block_left_, notify_counter, eventfd_,
                   P, H>>
    /\ BFrame

\* cv_.wait_for: the timeout expires (mode 4)
CWaitTimeout ==
    /\ C.pc = "asleep"
    /\ mode = 4
    /\ C' = [C EXCEPT !.pc = "woken", !.timedout = TRUE]
    /\ UNCHANGED <<buf_, free_list_, preserved_list_, mem, rpos_, wpos_,
                   wpos_private_, one_block_left_, notify_counter, eventfd_,
                   mtx_, P, H>>
    /\ BFrame

\* a condition variable may wake without a notification
CWaitSpurious ==
    /\ C.pc = "asleep"
    /\ C' = [C EXCEPT !.pc = "woken"]
    /\ UNCHANGED <<buf_, free_list_, preserved_list_, mem, rpos_, wpos_,
                   wpos_private_, one_block_left_, notify_counter, eventfd_,
                   mtx_, P, H>>
    /\ BFrame

\* the pointer a read returns, with the bytes it addressed at that time and
\* the offset in the stream where the read ends
Ptr(sz) == [blk |-> Front(buf_).blk, off |-> rpos_, len |-> sz,
            snap |-> Bytes(Front(buf_).blk, rpos_, sz),
            upto |-> StreamPos + sz]

\* read_cont / read<T>, lines 117-119 and 132-134, get_cont, lines 140-143:
\* the bytes at rpos_ of the front segment are returned and rpos_ advances
CTake ==
    /\ C.pc = "take"
    /\ C.call \in {"read_cont", "get_cont"}
    /\ LET bytes == Bytes(Front(buf_).blk, rpos_, C.size)
           h == [H EXCEPT !.readout = @ \o bytes, !.nr = @ + 1]
       IN /\ rpos_' = rpos_ + C.size
          /\ IF C.call = "get_cont"
                THEN /\ C' = [C EXCEPT !.pc = "clear", !.len = C.size,
                                       !.cleared_len = 0,
                                       !.snap = preserved_list_]
                     /\ H' = [h EXCEPT !.cleared_total = @ + C.size]
                ELSE /\ C' = CIdle
                     /\ H' = [h EXCEPT !.ptrs = @ \cup {Ptr(C.size)}]
    /\ UNCHANGED <<buf_, free_list_, preserved_list_, mem, wpos_,
                   wpos_private_, one_block_left_, notify_counter, eventfd_,
                   mtx_, P>>
    /\ BFrame

\* the consumer calls clear_preserved(n) for bytes it has read and no longer
\* needs
CCallClearBody(n) ==
    /\ C.pc = "idle"
    /\ n >= 1
    /\ H.cleared_total + n <= StreamPos
    /\ C' = [CIdle EXCEPT !.call = "clear_preserved", !.pc = "clear", !.len = n,
                          !.snap = preserved_list_]
    /\ H' = [H EXCEPT !.cleared_total = @ + n]
    /\ UNCHANGED <<buf_, free_list_, preserved_list_, mem, rpos_, wpos_,
                   wpos_private_, one_block_left_, notify_counter, eventfd_,
                   mtx_, P>>

\* the same call on the SPSCBlockBuffer alone
CCallClear(n) ==
    /\ CCallClearBody(n)
    /\ BFrame

\* a clear_preserved that counts the bytes of one call only per segment
clear_preserved_nosum ==
    /\ C.pc = "clear"
    /\ IF preserved_list_ # <<>> /\ Front(preserved_list_).end <= C.len
          THEN /\ free_list_' = Append(free_list_, Front(preserved_list_).blk)
               /\ preserved_list_' = Tail(preserved_list_)
               /\ C' = C
          ELSE /\ C' = CIdle
               /\ UNCHANGED <<free_list_, preserved_list_>>
    /\ UNCHANGED <<buf_, mem, rpos_, wpos_, wpos_private_, one_block_left_,
                   notify_counter, eventfd_, mtx_, P, H>>
    /\ BFrame

\* clear_preserved(len), lines 316-327: one turn of the loop
clear_preserved ==
    /\ C.pc = "clear"
    /\ IF preserved_list_ # <<>>
             /\ Front(preserved_list_).end + C.cleared_len <= C.len
          THEN /\ free_list_' = Append(free_list_, Front(preserved_list_).blk)
               /\ preserved_list_' = Tail(preserved_list_)
               /\ C' = [C EXCEPT !.cleared_len = @ + Front(preserved_list_).end]
          ELSE /\ C' = CIdle
               /\ UNCHANGED <<free_list_, preserved_list_>>
    /\ UNCHANGED <<buf_, mem, rpos_, wpos_, wpos_private_, one_block_left_,
                   notify_counter, eventfd_, mtx_, P, H>>
    /\ BFrame

(***************************************************************************)
(* Length-prefixed strings                                                 *)
(***************************************************************************)
\* the longest string the producer writes: one byte more than a block
MaxStr == BlockSize + 1

\* the bytes of the next string of n bytes, all different from each other
FreshStr(n) == [i \in 1 .. n |-> 10 + Len(H.written) + i]

\* write(str, notify), lines 107-111, and write_cont(str, notify), lines
\* 182-186: the size is written with notify = false, then the bytes with the
\* caller's notify.  write_cont requires a string that fits a block.
PCallWriteStr(kind, n, notify) ==
    /\ P.pc = "idle"
    /\ H.nw < MaxStrings
    /\ H.use = (IF kind = "write" THEN "str_write" ELSE "str_cont")
    /\ kind = "cont" => n <= BlockSize
    /\ P' = [PIdle EXCEPT
                !.call = IF kind = "write" THEN "write_str" ELSE "write_cont_str",
                !.todo = <<[kind |-> kind, data |-> Enc(n), notify |-> FALSE],
                           [kind |-> kind, data |-> FreshStr(n), notify |-> notify]>>,
                !.ntf = notify,
                !.start = Len(H.written),
                !.slen = n,
                !.pc = kind]
    /\ H' = [H EXCEPT !.strs = Append(@, FreshStr(n))]
    /\ UNCHANGED <<buf_, free_list_, preserved_list_, mem, rpos_, wpos_,
                   wpos_private_, one_block_left_, notify_counter, eventfd_,
                   mtx_, C>>
    /\ BFrame

\* the consumer calls get_string(); in modes 0 and 5 only once the string is
\* written and notified.  Line 147: read<size_t>() starts with
\* pop_block_if_needed(sizeof(size_t)).
CCallGetString ==
    /\ C.pc = "idle"
    /\ H.nr < MaxStrings
    /\ mode \in {0, 5} => H.nr + 1 <= H.notified
    /\ C' = [CIdle EXCEPT !.call = "get_string", !.size = SizeofSizeT,
                          !.pc = "pbn", !.ret = "take_len"]
    /\ UNCHANGED <<buf_, free_list_, preserved_list_, mem, rpos_, wpos_,
                   wpos_private_, one_block_left_, notify_counter, eventfd_,
                   mtx_, P, H>>
    /\ BFrame

\* get_string(), lines 147-149: *read<size_t>() and the start of
\* pop_block_if_needed(*len).  A length made of bytes never written is
\* indeterminate.
CTakeLen ==
    /\ C.pc = "take_len"
    /\ LET bytes == Bytes(Front(buf_).blk, rpos_, SizeofSizeT) IN
       /\ rpos_' = rpos_ + SizeofSizeT
       /\ H' = [H EXCEPT !.readout = @ \o bytes]
       /\ C' = IF Uninit \in Range(bytes)
                  THEN [C EXCEPT !.pc = "ub"]
                  ELSE [C EXCEPT !.pc = "pbn", !.size = Dec(bytes),
                                 !.ret = "take_body"]
    /\ UNCHANGED <<buf_, free_list_, preserved_list_, mem, wpos_,
                   wpos_private_, one_block_left_, notify_counter, eventfd_,
                   mtx_, P>>
    /\ BFrame

\* get_string(), lines 151-154: the string is built from *len bytes at rpos_,
\* rpos_ advances and clear_preserved(sizeof(size_t) + *len) follows.  Bytes
\* past the end of the block are not the buffer's to read.
CTakeBody ==
    /\ C.pc = "take_body"
    /\ IF rpos_ + C.size > BlockSize
          THEN /\ C' = [C EXCEPT !.pc = "ub"]
               /\ UNCHANGED <<rpos_, H>>
          ELSE LET bytes == Bytes(Front(buf_).blk, rpos_, C.size) IN
               /\ rpos_' = rpos_ + C.size
               /\ H' = [H EXCEPT !.readout = @ \o bytes,
                                 !.strsout = Append(@, bytes),
                                 !.nr = @ + 1,
                                 !.cleared_total = @ + SizeofSizeT + C.size]
               /\ C' = [C EXCEPT !.pc = "clear", !.len = SizeofSizeT + C.size,
                                 !.cleared_len = 0, !.snap = preserved_list_]
    /\ UNCHANGED <<buf_, free_list_, preserved_list_, mem, wpos_,
                   wpos_private_, one_block_left_, notify_counter, eventfd_,
                   mtx_, P>>
    /\ BFrame

(***************************************************************************)
(* File descriptors                                                        *)
(***************************************************************************)
\* what ::read(fd, buf, count) / ::write(fd, buf, count) can return when at
\* most avail bytes can be transferred: an error, or a count of bytes
\* (0 for a request of 0 bytes or at end of input)
SysResults(count, avail) ==
    {-1} \cup (IF Min(count, avail) = 0 THEN {0} ELSE 1 .. Min(count, avail))

\* the producer calls input_from_fd(fd, cont, max_len)
PCallInput(cont, max) ==
    /\ P.pc = "idle"
    /\ P' = [PIdle EXCEPT !.call = "input_from_fd", !.cont = cont, !.max = max,
                          !.pc = "in_loop"]
    /\ H' = [H EXCEPT !.quiet = FALSE]
    /\ UNCHANGED <<buf_, free_list_, preserved_list_, mem, rpos_, wpos_,
                   wpos_private_, one_block_left_, notify_counter, eventfd_,
                   mtx_, C>>
    /\ BFrame

\* a ::read that is asked for the room of the back block whatever max_len is
InputCountNoCap == BlockSize - wpos_private_

\* input_from_fd, lines 195-199: the count passed to ::read, the room of the
\* back block, and with a max_len other than -1 at most
\* (size_t)(max_len - total_len)
InputCount ==
    IF P.max = -1 THEN BlockSize - wpos_private_
    ELSE Min(USub(P.max, P.total), BlockSize - wpos_private_)

\* input_from_fd, line 192: add_block_if_needed()
PInputLoop ==
    /\ P.pc = "in_loop"
    /\ P' = IF wpos_private_ = BlockSize
               THEN [P EXCEPT !.pc = "add_block", !.ret = "in_read"]
               ELSE [P EXCEPT !.pc = "in_read"]
    /\ UNCHANGED <<buf_, free_list_, preserved_list_, mem, rpos_, wpos_,
                   wpos_private_, one_block_left_, notify_counter, eventfd_,
                   mtx_, C, H>>
    /\ BFrame

\* an input_from_fd that returns the error of ::read whatever it has read
PInputReadErr ==
    /\ P.pc = "in_read"
    /\ LET count == InputCount
       IN \E len \in SysResults(count, MaxFd - Len(H.fdin)) :
            IF len < 0
               THEN /\ P' = [P EXCEPT !.pc = "idle", !.total = len, !.err = TRUE]
                    /\ UNCHANGED <<mem, wpos_private_, H>>
            ELSE IF len <= 0
               THEN /\ P' = [P EXCEPT !.pc = IF P.total > 0 THEN "notify" ELSE "idle",
                                      !.err = (len < 0)]
                    /\ UNCHANGED <<mem, wpos_private_, H>>
            ELSE /\ mem' = Copy(Back(buf_).blk, wpos_private_, Fresh(len))
                 /\ wpos_private_' = wpos_private_ + len
                 /\ H' = [H EXCEPT !.written = @ \o Fresh(len),
                                   !.fdin = @ \o Fresh(len)]
                 /\ P' = [P EXCEPT !.total = @ + len, !.moved = @ + len,
                                   !.pc = IF P.cont THEN "notify" ELSE "in_loop"]
    /\ UNCHANGED <<buf_, free_list_, preserved_list_, rpos_, wpos_,
                   one_block_left_, notify_counter, eventfd_, mtx_, C>>
    /\ BFrame

\* input_from_fd, lines 194-222: ::read into the back block at wpos_private_,
\* of at most the room of the block and at most max_len - total_len; the
\* tests of its result; after the loop, notify() iff total_len > 0
PInputRead ==
    /\ P.pc = "in_read"
    /\ LET count == InputCount
       IN \E len \in SysResults(count, MaxFd - Len(H.fdin)) :
            IF len < 0 /\ P.total = 0
               THEN /\ P' = [P EXCEPT !.pc = "idle", !.total = len, !.err = TRUE]
                    /\ UNCHANGED <<mem, wpos_private_, H>>
            ELSE IF len <= 0
               THEN /\ P' = [P EXCEPT !.pc = IF P.total > 0 THEN "notify" ELSE "idle",
                                      !.err = (len < 0)]
                    /\ UNCHANGED <<mem, wpos_private_, H>>
            ELSE /\ mem' = Copy(Back(buf_).blk, wpos_private_, Fresh(len))
                 /\ wpos_private_' = wpos_private_ + len
                 /\ H' = [H EXCEPT !.written = @ \o Fresh(len),
                                   !.fdin = @ \o Fresh(len)]
                 /\ P' = [P EXCEPT !.total = @ + len, !.moved = @ + len,
                                   !.pc = IF P.cont THEN "notify" ELSE "in_loop"]
    /\ UNCHANGED <<buf_, free_list_, preserved_list_, rpos_, wpos_,
                   one_block_left_, notify_counter, eventfd_, mtx_, C>>
    /\ BFrame

\* the consumer calls output_to_fd(fd)
CCallOutputBody ==
    /\ C.pc = "idle"
    /\ C' = [CIdle EXCEPT !.call = "output_to_fd", !.pc = "pbn_avail",
                          !.ret = "out_write"]
    /\ H' = [H EXCEPT !.quiet = (P.pc = "idle")]
    /\ UNCHANGED <<buf_, free_list_, preserved_list_, mem, rpos_, wpos_,
                   wpos_private_, one_block_left_, notify_counter, eventfd_,
                   mtx_, P>>

\* the same call on the SPSCBlockBuffer alone
CCallOutput ==
    /\ CCallOutputBody
    /\ BFrame

\* a pop_block_if_needed_and_available that trusts one_block_left_
pop_block_if_needed_and_available_stale ==
    /\ C.pc = "pbn_avail"
    /\ C' = [C EXCEPT !.pc =
                IF one_block_left_ THEN C.ret
                   ELSE (IF FrontShort(1) THEN "pop_block" ELSE C.ret)]
    /\ UNCHANGED <<buf_, free_list_, preserved_list_, mem, rpos_, wpos_,
                   wpos_private_, one_block_left_, notify_counter, eventfd_,
                   mtx_, P, H>>
    /\ BFrame

\* pop_block_if_needed_and_available(size), lines 367-375, called with size 1
pop_block_if_needed_and_available ==
    /\ C.pc = "pbn_avail"
    /\ C' = [C EXCEPT !.pc =
                IF one_block_left_
                   THEN (IF ~check_one_block_left /\ FrontShort(1)
                            THEN "pop_block" ELSE C.ret)
                   ELSE (IF FrontShort(1) THEN "pop_block" ELSE C.ret)]
    /\ UNCHANGED <<buf_, free_list_, preserved_list_, mem, rpos_, wpos_,
                   wpos_private_, one_block_left_, notify_counter, eventfd_,
                   mtx_, P, H>>
    /\ BFrame

\* output_to_fd, lines 232-254: ::write of the bytes from rpos_ to the end of
\* the front segment, and the tests of its result; line 268:
\* clear_preserved(total_len) after the loop
COutputResult(len) ==
    /\ C.pc = "out_write"
    /\ IF len < 0 /\ C.total = 0
          THEN /\ C' = [CIdle EXCEPT !.call = "output_to_fd",
                                     !.total = len, !.err = TRUE]
               /\ UNCHANGED <<rpos_, H>>
       ELSE IF len <= 0
          THEN /\ C' = [C EXCEPT !.pc = "clear", !.len = C.total,
                                 !.cleared_len = 0,
                                 !.snap = preserved_list_,
                                 !.err = (len < 0)]
               /\ H' = [H EXCEPT !.cleared_total = @ + C.total]
               /\ UNCHANGED rpos_
       ELSE /\ rpos_' = rpos_ + len
            /\ H' = [H EXCEPT !.fdout = @ \o Bytes(Front(buf_).blk, rpos_, len)]
            /\ C' = [C EXCEPT !.total = @ + len, !.moved = @ + len,
                              !.pc = "pbn_avail"]
    /\ UNCHANGED <<buf_, free_list_, preserved_list_, mem, wpos_,
                   wpos_private_, one_block_left_, notify_counter, eventfd_,
                   mtx_, P>>
    /\ BFrame

\* output_to_fd to an fd that returns any of the results of ::write
COutputWrite ==
    /\ C.pc = "out_write"
    /\ LET count == USub(Front(buf_).end, rpos_) IN
       \E len \in SysResults(count, count) : COutputResult(len)

\* output_to_fd to an fd that accepts every byte it is given
COutputAccept ==
    /\ C.pc = "out_write"
    /\ COutputResult(USub(Front(buf_).end, rpos_))

(***************************************************************************)
(* Rounds of fill, drain and clear                                         *)
(***************************************************************************)
\* the byte count of a round: more than the bytes of one segment
RoundBytes == BlockSize + 1

\* the modes whose typed reads pop segments (pop_block_if_needed has no
\* branch for mode 5)
RModes == Modes \ {5}

\* a round starts: the producer writes RoundBytes bytes with
\* write(begin, end, true)
PCallFill ==
    /\ P.pc = "idle" /\ C.pc = "idle"
    /\ H.fill = 0
    /\ H.round < MaxRounds
    /\ P' = [PIdle EXCEPT
                !.call = "write",
                !.todo = <<[kind |-> "write", data |-> Fresh(RoundBytes),
                            notify |-> TRUE]>>,
                !.ntf = TRUE,
                !.pc = "write"]
    /\ H' = [H EXCEPT !.fill = RoundBytes, !.drained = 0]
    /\ UNCHANGED <<buf_, free_list_, preserved_list_, mem, rpos_, wpos_,
                   wpos_private_, one_block_left_, notify_counter, eventfd_,
                   mtx_, C>>
    /\ BFrame

\* the consumer drains the bytes of the round one by one with read_cont(1)
CCallDrain ==
    /\ C.pc = "idle" /\ P.pc = "idle"
    /\ H.drained < H.fill
    /\ C' = [CIdle EXCEPT !.call = "read_cont", !.size = 1, !.pc = "pbn",
                          !.ret = "take"]
    /\ H' = [H EXCEPT !.drained = @ + 1]
    /\ UNCHANGED <<buf_, free_list_, preserved_list_, mem, rpos_, wpos_,
                   wpos_private_, one_block_left_, notify_counter, eventfd_,
                   mtx_, P>>
    /\ BFrame

\* the round ends: the consumer calls clear_preserved with the byte count it
\* drained in the round
CCallRoundClear ==
    /\ C.pc = "idle" /\ P.pc = "idle"
    /\ H.fill > 0 /\ H.drained = H.fill
    /\ C' = [CIdle EXCEPT !.call = "clear_preserved", !.pc = "clear",
                          !.len = H.fill, !.snap = preserved_list_]
    /\ H' = [H EXCEPT !.round = @ + 1, !.fill = 0, !.drained = 0,
                      !.cleared_total = @ + H.fill,
                      !.allocs = Append(@, Len(mem))]
    /\ UNCHANGED <<buf_, free_list_, preserved_list_, mem, rpos_, wpos_,
                   wpos_private_, one_block_left_, notify_counter, eventfd_,
                   mtx_, P>>
    /\ BFrame

(***************************************************************************)
(* empty()                                                                 *)
(***************************************************************************)
\* one segment is published and rpos_ is its published write position
EmptyNow == check_one_block_left /\ rpos_ = Front(buf_).end

\* the number of bytes of the first k data of the run
RECURSIVE DataBytes(_)
DataBytes(k) == IF k = 0 THEN 0 ELSE DataBytes(k - 1) + H.sizes[k]

\* some write that has returned and was followed by a notify() has bytes the
\* consumer has not consumed
UnreadNotified == DataBytes(Min(H.notified, H.nw)) > Len(H.readout)

\* the bytes below the published write positions of the first k segments
RECURSIVE PublishedUpTo(_)
PublishedUpTo(k) == IF k = 0 THEN 0 ELSE PublishedUpTo(k - 1) + buf_[k].end

\* the published bytes the consumer has not read: those below the write
\* positions stored with release in the segments, from rpos_ on
PublishedUnread == PublishedUpTo(Len(buf_)) - rpos_

\* the consumer calls empty(), line 313: the test of one_block_left_, which
\* only the consumer writes
CCallEmpty ==
    /\ C.pc = "idle"
    /\ LET c == [CIdle EXCEPT !.call = "empty", !.was = EmptyNow,
                              !.unread = UnreadNotified]
       IN C' = IF one_block_left_ THEN [c EXCEPT !.pc = "empty_check"]
                                  ELSE [c EXCEPT !.res = FALSE]
    /\ UNCHANGED <<buf_, free_list_, preserved_list_, mem, rpos_, wpos_,
                   wpos_private_, one_block_left_, notify_counter, eventfd_,
                   mtx_, P, H>>
    /\ BFrame

\* empty(), line 313: one_block_left_ = check_one_block_left(), an acquire
\* load of the pointer wpos_
CEmptyCheck ==
    /\ C.pc = "empty_check"
    /\ one_block_left_' = check_one_block_left
    /\ C' = IF check_one_block_left
               THEN [C EXCEPT !.pc = "empty_load", !.ptr = wpos_]
               ELSE [C EXCEPT !.pc = "idle", !.res = FALSE]
    /\ UNCHANGED <<buf_, free_list_, preserved_list_, mem, rpos_, wpos_,
                   wpos_private_, notify_counter, eventfd_, mtx_, P, H>>
    /\ BFrame

\* empty(), line 313: rpos_ == acquire-load(*wpos_). The pointer wpos_ is read
\* a second time, with a plain read that add_block's store of wpos_ may race
\* with: it is the pointer the check loaded or the pointer stored since
CEmptyLoad ==
    /\ C.pc = "empty_load"
    /\ \E p \in {C.ptr, wpos_} :
          LET seg == CHOOSE s \in Range(buf_) : s.id = p
          IN C' = [C EXCEPT !.pc = "idle", !.res = (rpos_ = seg.end), !.ptr = 0]
    /\ UNCHANGED <<buf_, free_list_, preserved_list_, mem, rpos_, wpos_,
                   wpos_private_, one_block_left_, notify_counter, eventfd_,
                   mtx_, P, H>>
    /\ BFrame

(***************************************************************************)
(* Part III.  BlockBuffer                                                  *)
(*                                                                         *)
(* The class is for one thread: a call runs from its first statement to    *)
(* its return with nothing in between, so every member function is an      *)
(* operator from the object before the call to the object after it.        *)
(***************************************************************************)
\* the bytes at offsets off .. off+n-1 of block blk of b
BBBytes(b, blk, off, n) ==
    [i \in 1 .. n |-> IF off + i <= BlockSize THEN b.mem[blk][off + i] ELSE Uninit]

\* std::copy(data, ..., block blk + off)
BBCopy(b, blk, off, data) ==
    [b.mem EXCEPT ![blk] = [i \in 1 .. BlockSize |->
        IF i > off /\ i <= off + Len(data) THEN data[i - off] ELSE @[i]]]

\* add_block(), lines 208-217
BBadd_block(b) ==
    LET closed == [b.buf_ EXCEPT ![Len(b.buf_)].end = b.wpos_] IN
    IF b.free_list_ = <<>>
       THEN [b EXCEPT !.buf_ = Append(closed, [blk |-> Len(b.mem) + 1,
                                               end |-> SizeTMax]),
                      !.mem = Append(@, NewBlock),
                      !.wpos_ = 0]
       ELSE [b EXCEPT !.buf_ = Append(closed, [blk |-> Front(b.free_list_),
                                               end |-> SizeTMax]),
                      !.free_list_ = Tail(@),
                      !.wpos_ = 0]

\* write(write_start, write_end), lines 51-64
RECURSIVE BBwrite(_, _)
BBwrite(b, data) ==
    IF data = <<>> THEN b
    ELSE LET b1 == IF b.wpos_ = BlockSize THEN BBadd_block(b) ELSE b
             to_write == Min(Len(data), BlockSize - b1.wpos_)
         IN BBwrite([b1 EXCEPT
                        !.mem = BBCopy(b1, Back(b1.buf_).blk, b1.wpos_,
                                       SubSeq(data, 1, to_write)),
                        !.wpos_ = @ + to_write],
                    SubSeq(data, to_write + 1, Len(data)))

\* write_cont(write_start, write_end), lines 97-108
BBwrite_cont(b, data) ==
    IF data = <<>> THEN b
    ELSE LET b1 == IF Len(data) > USub(BlockSize, b.wpos_)
                      THEN BBadd_block(b) ELSE b
         IN [b1 EXCEPT !.mem = BBCopy(b1, Back(b1.buf_).blk, b1.wpos_, data),
                       !.wpos_ = @ + Len(data)]

\* pop_block(), lines 231-235
BBpop_block(b) ==
    [b EXCEPT !.preserved_list_ = Append(@, Front(b.buf_)),
              !.buf_ = Tail(@),
              !.rpos_ = 0]

\* pop_block_if_needed(size), lines 237-241
BBpop_block_if_needed(b, size) ==
    IF Front(b.buf_).end # SizeTMax /\ USub(Front(b.buf_).end, b.rpos_) < size
       THEN BBpop_block(b) ELSE b

\* read<T>(), lines 77-84, with sizeof(T) = size
BBread(b, size) ==
    LET b1 == BBpop_block_if_needed(b, size) IN
    [b1 EXCEPT !.readout = @ \o BBBytes(b1, Front(b1.buf_).blk, b1.rpos_, size),
               !.rpos_ = @ + size]

\* output_to_fd(fd), lines 148-183, to an fd that accepts every byte it is
\* given (::write returns its count, 0 for a count of 0); total is total_len
RECURSIVE BBoutput_to_fd(_, _)
BBoutput_to_fd(b, total) ==
    LET front == Front(b.buf_)
        len == IF front.end = SizeTMax THEN USub(b.wpos_, b.rpos_)
                                       ELSE USub(front.end, b.rpos_)
    IN IF len = 0 THEN [b EXCEPT !.total = total]
       ELSE LET b1 == [b EXCEPT !.fdout = @ \o BBBytes(b, front.blk, b.rpos_, len),
                                !.rpos_ = @ + len]
            IN IF front.end # SizeTMax /\ b1.rpos_ = front.end
                  THEN BBoutput_to_fd(BBpop_block(b1), total + len)
                  ELSE BBoutput_to_fd(b1, total + len)

\* clear_preserved(len), lines 194-205. The loop calls
\* preserved_list_.front() without a test of preserved_list_.empty(): on an
\* empty list the pair it reads is not the list's, and the test on it either
\* fails (the loop ends) or passes (garbage: a block that is no block enters
\* free_list_ and pop() runs on an empty queue)
RECURSIVE BBclear_preserved(_, _, _, _)
BBclear_preserved(b, len, cleared_len, garbage) ==
    IF b.preserved_list_ = <<>>
       THEN [b EXCEPT !.empty_front = TRUE, !.ub = garbage]
    ELSE IF Front(b.preserved_list_).end + cleared_len <= len
       THEN BBclear_preserved(
                [b EXCEPT !.free_list_ = Append(@, Front(b.preserved_list_).blk),
                          !.preserved_list_ = Tail(@)],
                len, cleared_len + Front(b.preserved_list_).end, garbage)
    ELSE b

\* the bytes written to b that no read<T>() and no output_to_fd has consumed
BBUnread(b) == b.written - Len(b.readout) - Len(b.fdout)

\* b at the start of a call: what the call is and what it finds
BBCall(b, call) ==
    [b EXCEPT !.call = call, !.unread = BBUnread(b), !.total = 0, !.len = 0,
              !.snap = b.preserved_list_]

(***************************************************************************)
(* One thread gives an SPSCBlockBuffer in mode 0 and a BlockBuffer the     *)
(* same calls                                                              *)
(***************************************************************************)
\* both objects are between calls
BothIdle == P.pc = "idle" /\ C.pc = "idle" /\ ~bb.ub

\* write(p, p + n) or write_cont(p, p + n) on both
XCallWrite(kind, n) ==
    /\ BothIdle
    /\ H.use = "bb_read" => kind = "cont"
    /\ PCallWriteBody(kind, n, TRUE)
    /\ LET b == BBCall(bb, IF kind = "write" THEN "write" ELSE "write_cont")
           b1 == IF kind = "write" THEN BBwrite(b, Fresh(n))
                                   ELSE BBwrite_cont(b, Fresh(n))
       IN bb' = [b1 EXCEPT !.written = @ + n]
    /\ UNCHANGED <<qvars, mode>>

\* read<T>() with sizeof(T) = n on both, while every byte consumed so far was
\* consumed by a read<T>()
XCallRead(n) ==
    /\ BothIdle
    /\ H.use = "bb_read"
    /\ H.fdout = <<>> /\ bb.fdout = <<>>
    /\ CCallReadBody("read_cont", n)
    /\ bb' = BBread(BBCall(bb, "read"), n)
    /\ UNCHANGED <<qvars, mode>>

\* output_to_fd(fd) on both
XCallOutput ==
    /\ BothIdle
    /\ CCallOutputBody
    /\ bb' = BBoutput_to_fd(BBCall(bb, "output_to_fd"), 0)
    /\ UNCHANGED <<qvars, mode>>

\* clear_preserved(n) on both, for bytes that read<T>() has returned
XCallClear(n) ==
    /\ BothIdle
    /\ H.use = "bb_read"
    /\ H.fdout = <<>> /\ bb.fdout = <<>>
    /\ CCallClearBody(n)
    /\ \E garbage \in BOOLEAN :
          bb' = BBclear_preserved([BBCall(bb, "clear_preserved") EXCEPT !.len = n],
                                  n, 0, garbage)
    /\ UNCHANGED <<qvars, mode>>

(***************************************************************************)
(* Specifications                                                          *)
(***************************************************************************)
PStep ==
    \/ PWrite \/ PWriteCont \/ PWriteContCopy
    \/ PAddBlockClose \/ PAddBlockLink \/ PAddBlockWpos
    \/ PNotifyStore \/ PNotifySignal

\* the steps every typed read shares
CRead ==
    \/ pop_block_if_needed \/ CPbnRecheck \/ pop_block
    \/ CWaitTest \/ CWaitLock \/ CWaitPred \/ CWaitSleep \/ CWaitTimeout
    \/ clear_preserved

CStep == CRead \/ CTake

\* length-prefixed strings: write(str) or write_cont(str) against get_string
SInit ==
    /\ QIdle
    /\ \E m \in Modes : BInitMode(m)
    /\ \E u \in {"str_write", "str_cont"} : H = [HInit EXCEPT !.use = u]

SNext ==
    \/ \E kind \in {"write", "cont"}, n \in 0 .. MaxStr, notify \in BOOLEAN :
          PCallWriteStr(kind, n, notify)
    \/ PCallNotify
    \/ PStep
    \/ CCallGetString
    \/ CRead \/ CTakeLen \/ CTakeBody
    \/ CWaitSpurious

SpecS == SInit /\ [][SNext]_vars

\* the max_len arguments of input_from_fd: no limit, nothing, less than a block
MaxLens == {-1, 0, BlockSize - 1}

\* file descriptors: input_from_fd against output_to_fd
FInit ==
    /\ QIdle
    /\ \E m \in Modes : BInitMode(m)
    /\ H = [HInit EXCEPT !.use = "fd"]

FNext ==
    \/ \E cont \in BOOLEAN, max \in MaxLens : PCallInput(cont, max)
    \/ PInputLoop \/ PInputRead
    \/ PAddBlockClose \/ PAddBlockLink \/ PAddBlockWpos
    \/ PNotifyStore \/ PNotifySignal
    \/ CCallOutput
    \/ pop_block_if_needed_and_available \/ pop_block \/ COutputWrite
    \/ clear_preserved

SpecF == FInit /\ [][FNext]_vars

\* the steps of a producer inside input_from_fd; no step of it waits for the
\* consumer, and ::read on the descriptor returns
PInputStep ==
    \/ PInputLoop \/ PInputRead
    \/ PAddBlockClose \/ PAddBlockLink \/ PAddBlockWpos
    \/ PNotifyStore \/ PNotifySignal

\* input_from_fd against an output_to_fd that keeps what it has written out
LNext ==
    \/ \E cont \in BOOLEAN, max \in MaxLens : PCallInput(cont, max)
    \/ PInputStep
    \/ CCallOutput
    \/ pop_block_if_needed_and_available \/ pop_block \/ COutputWrite

SpecL == FInit /\ [][LNext]_vars /\ WF_vars(PInputStep)

\* typed use: write / write_cont of data against read_cont / get_cont
BInit ==
    /\ QIdle
    /\ \E m \in Modes : BInitMode(m)
    /\ H = [HInit EXCEPT !.use = "typed"]

BNext ==
    \/ \E kind \in {"write", "cont"}, n \in 1 .. MaxDatum, notify \in BOOLEAN :
          PCallWrite(kind, n, notify)
    \/ PCallNotify
    \/ PStep
    \/ \E call \in {"read_cont", "get_cont"}, n \in 1 .. MaxDatum : CCallRead(call, n)
    \/ \E n \in 1 .. BlockSize : CCallClear(n)
    \/ CStep
    \/ CWaitSpurious

SpecB == BInit /\ [][BNext]_vars

\* typed writes against a consumer that reads with get<T>() / get_cont() only
GInit ==
    /\ QIdle
    /\ \E m \in Modes : BInitMode(m)
    /\ H = [HInit EXCEPT !.use = "get"]

GNext ==
    \/ \E kind \in {"write", "cont"}, n \in 1 .. MaxDatum, notify \in BOOLEAN :
          PCallWrite(kind, n, notify)
    \/ PCallNotify
    \/ PStep
    \/ \E n \in 1 .. MaxDatum : CCallRead("get_cont", n)
    \/ CStep
    \/ CWaitSpurious

SpecG == GInit /\ [][GNext]_vars

\* rounds: the producer fills several segments, then the consumer drains them
\* and calls clear_preserved with the byte count it drained
RInit ==
    /\ QIdle
    /\ \E m \in RModes : BInitMode(m)
    /\ H = [HInit EXCEPT !.use = "rounds"]

RNext ==
    \/ PCallFill
    \/ PWrite \/ PAddBlockClose \/ PAddBlockLink \/ PAddBlockWpos
    \/ PNotifyStore \/ PNotifySignal
    \/ CCallDrain \/ CCallRoundClear
    \/ pop_block_if_needed \/ CPbnRecheck \/ pop_block \/ CWaitTest
    \/ CTake \/ clear_preserved

SpecR == RInit /\ [][RNext]_vars

\* empty() next to contiguous writes and reads of the same data
EInit ==
    /\ QIdle
    /\ \E m \in Modes : BInitMode(m)
    /\ H = [HInit EXCEPT !.use = "empty"]

ENext ==
    \/ \E n \in 1 .. MaxDatum, notify \in BOOLEAN : PCallWrite("cont", n, notify)
    \/ PCallNotify
    \/ PWriteCont \/ PWriteContCopy
    \/ PAddBlockClose \/ PAddBlockLink \/ PAddBlockWpos
    \/ PNotifyStore \/ PNotifySignal
    \/ \E n \in 1 .. MaxDatum : CCallRead("read_cont", n)
    \/ pop_block_if_needed \/ CPbnRecheck \/ pop_block
    \/ CWaitTest \/ CWaitLock \/ CWaitPred \/ CWaitSleep \/ CWaitTimeout
    \/ CTake
    \/ CCallEmpty \/ CEmptyCheck \/ CEmptyLoad

SpecE == EInit /\ [][ENext]_vars

\* one thread, two buffers: typed contiguous writes with read<T>(),
\* clear_preserved and output_to_fd, or writes of both kinds with
\* output_to_fd alone
XInit ==
    /\ QIdle
    /\ BInitMode(0)
    /\ \E u \in {"bb_read", "bb_fd"} : H = [HInit EXCEPT !.use = u]

XNext ==
    \/ \E kind \in {"write", "cont"}, n \in 1 .. MaxDatum : XCallWrite(kind, n)
    \/ \E n \in 1 .. MaxDatum : XCallRead(n)
    \/ XCallOutput
    \/ \E n \in 1 .. BlockSize : XCallClear(n)
    \/ PWrite \/ PWriteCont \/ PWriteContCopy
    \/ PAddBlockClose \/ PAddBlockLink \/ PAddBlockWpos
    \/ PNotifyStore
    \/ pop_block_if_needed \/ pop_block \/ CTake
    \/ pop_block_if_needed_and_available \/ COutputAccept
    \/ clear_preserved

SpecX == XInit /\ [][XNext]_vars

\* the producer alone: where write, write_cont and ensure_cont put the bytes
\* and what notify() stores and signals depends on no step of the consumer
WNext ==
    \/ \E kind \in {"write", "cont"}, n \in 1 .. MaxDatum, notify \in BOOLEAN :
          PCallWrite(kind, n, notify)
    \/ \E n \in 1 .. BlockSize : PCallEnsure(n)
    \/ PCallWriteNone
    \/ PCallNotify
    \/ PStep \/ PEnsureCont

SpecW == BInit /\ [][WNext]_vars

\* the scheduler runs a thread that can take a step and the timer of
\* cv_.wait_for expires; nothing guarantees a further call or a spurious
\* wake-up
SpecBFair == SpecB /\ WF_vars(PStep) /\ WF_vars(CStep)

QNext == QProducer \/ QConsumer

\* the queue after construction, next to a buffer that is not in use
QStart == QInit /\ BIdle

SpecQ == QStart /\ [][QNext]_vars

\* the queue from its construction to its destruction
QDNext == QNext \/ QDestroy

SpecQD == QStart /\ [][QDNext]_vars

\* the scheduler runs a thread that can take a step; a started push() runs
\* to its end; nothing guarantees a spurious wake-up or a further call
SpecQFair ==
    /\ SpecQ
    /\ WF_vars(QPushLink \/ QPushPublish \/ QPushNotify)
    /\ WF_vars(QConsumerStep)

\* number of push() calls whose release-store of tail_ has been made
QPublished ==
    IF qp_pc \in {"link", "construct", "publish"} THEN npush - 1 ELSE npush

\* C2: queue FIFO.  The elements removed by pop() carry the pushed values
\* 1, 2, 3, ... in push order, each exactly once and none before its push was
\* published, and the value front() returned before a pop() is the value of
\* the element that pop() removes.
QueueFIFO ==
    /\ \A i \in 1 .. Len(got) : got[i] = i
    /\ Len(got) <= QPublished
    /\ lastFront # 0 => lastFront = Len(got) + 1

\* C2 witness: two elements went through front()/pop() and the producer has
\* pushed into a node it took from the freelist
QueueFIFOWitness ==
    /\ Len(got) >= 2
    /\ lastFront = Len(got) + 1
    /\ nalloc < npush + 2

\* C8: CV-mode liveness.  In SPSCQueueCV a consumer inside the wait of
\* pop()/front() leaves it and returns once a push has been published.
QCVWaiting == qmode = 2 /\ qc_pc \in {"lock", "pred", "sleep", "asleep", "woken"}

QueueCVLive == (QCVWaiting /\ ~q_empty) ~> (qc_pc = "idle")

\* C8 witness: the consumer is blocked on cv_, the push is published and its
\* notify_one() is still to come
QueueCVLiveWitness ==
    /\ qmode = 2 /\ qc_pc = "asleep" /\ qc_op = "pop"
    /\ ~q_empty /\ qp_pc = "notify"



CWaiting == C.pc \in {"wait", "lock", "pred", "sleep", "asleep", "woken"}

\* C1: stream fidelity.  In the wait-free mode and in the blocking modes the
\* bytes the consumer's reads return are, in order, the bytes the producer
\* wrote: the read stream is a prefix of the written stream.
StreamFidelity ==
    mode \in 0 .. 4 => IsPrefix(H.readout, H.written)

\* C3: pointer stability.  Until clear_preserved has been given, in total, a
\* byte count that covers the stream up to the end of a read, the block the
\* read pointed into is not on the freelist and the bytes it pointed at are
\* what they were.
PointerStable ==
    \A p \in H.ptrs :
        p.upto > H.cleared_total =>
            /\ p.blk \notin Range(free_list_)
            /\ Bytes(p.blk, p.off, p.len) = p.snap

\* C4: typed reads advance across segments in every mode.  A read does not
\* take its bytes from a front segment that has fewer than the requested
\* bytes left when a later segment is linked and published, and rpos_ never
\* exceeds the end of the front segment.
TypedReadsAdvance ==
    /\ (C.pc = "take" /\ C.call \in {"read_cont", "get_cont"})
          => ~(FrontShort(C.size) /\ ~check_one_block_left)
    /\ rpos_ <= Front(buf_).end

\* C7: blocking-read liveness.  In modes 1-4, once the datum the consumer
\* waits for is written and notified, the consumer returns.
BlockingReadLive ==
    (mode \in 1 .. 4 /\ CWaiting /\ H.nr < H.notified) ~> (C.pc = "idle")

\* C7, as a finite run refutes it: when the datum the consumer waits for is
\* written and notified and the producer makes no further store, the
\* predicate the consumer waits for holds.
BlockingReadNotStuck ==
    (mode \in 1 .. 4 /\ CWaiting /\ H.nr < H.notified /\ P.pc = "idle"
       /\ H.nw = MaxData /\ H.notified = H.nw)
        => WaitPred(C.wait, C.size)

\* C6: through input_from_fd and output_to_fd, whatever the interleaving and
\* the partial reads and writes, the bytes written to the output descriptor
\* are a prefix of the bytes read from the input descriptor, in order; the
\* consumer never pops the last segment; and an output_to_fd that ends
\* without an error, in a call during which the producer was stopped, has
\* emitted every byte read from the input descriptor.
FdRoundTrip ==
    /\ IsPrefix(H.fdout, H.fdin)
    /\ C.pc # "ub"
    /\ (C.call = "output_to_fd" /\ C.pc = "clear" /\ ~C.err /\ H.quiet)
          => H.fdout = H.fdin

\* an output_to_fd that ends with all MaxFd bytes emitted, while the producer
\* was stopped, its last bytes taken from a third segment that reuses the
\* first block
FdRoundTripWitness ==
    /\ C.call = "output_to_fd" /\ C.pc = "clear" /\ ~C.err /\ H.quiet
    /\ Len(H.fdout) = MaxFd /\ H.fdout = H.fdin
    /\ Front(buf_).id = 3 /\ Front(buf_).blk = 1

\* the number of bytes of the stream that the first k strings occupy
RECURSIVE StrBytes(_)
StrBytes(k) == IF k = 0 THEN 0 ELSE StrBytes(k - 1) + SizeofSizeT + Len(H.strs[k])

\* C5: for strings written by write(s), of any length and at any tail
\* position, get_string() returns the strings written, in order and byte for
\* byte, never reads a length or a body that is not the buffer's to read, and
\* on return leaves the read cursor at the first byte written after the
\* string.
StringRoundTrip ==
    H.use = "str_write" =>
        /\ IsPrefix(H.strsout, H.strs)
        /\ C.pc # "ub"
        /\ (C.call = "get_string" /\ C.pc = "clear")
              => StreamPos = StrBytes(Len(H.strsout))

\* the number of bytes of the stream published to the consumer: the ends of
\* the segments it has popped and of those it can reach
PublishedLen == H.popped_bytes + SumEnds(buf_)

\* C9: when write(s) or write_cont(s) called with notify = true returns, that
\* call has issued exactly one notify() and the published write position
\* covers the length prefix and every byte of s.
CompositeNotifiesOnce ==
    (P.pc = "idle" /\ P.call \in {"write_str", "write_cont_str"} /\ P.ntf) =>
        /\ P.nnotify = 1
        /\ PublishedLen >= P.start + SizeofSizeT + P.slen

\* C10: while a string is being written, the consumer cannot see the size
\* prefix of the string as published while a byte of its body is not.
PrefixBodyAtomic ==
    (P.pc # "idle" /\ P.call \in {"write_str", "write_cont_str"}) =>
        ~(/\ PublishedLen >= P.start + SizeofSizeT
          /\ PublishedLen < P.start + SizeofSizeT + P.slen)

\* the last n bytes written
LastWritten(n) == SubSeq(H.written, Len(H.written) - n + 1, Len(H.written))

\* C11: contiguous write.  wpos_private_ never exceeds block_size; when
\* write_cont copies n bytes the tail block has room for them, every segment
\* before the tail being closed with the count of the bytes it holds; the
\* bytes of the call then lie in one segment, at the n consecutive offsets
\* that end at wpos_private_; and ensure_cont(n) returns with room for n
\* bytes at wpos_private_.
ContiguousWrite ==
    /\ wpos_private_ <= BlockSize
    /\ P.pc = "cont_copy" =>
          /\ Len(Front(P.todo).data) <= BlockSize - wpos_private_
          /\ SumEnds(SubSeq(buf_, 1, Len(buf_) - 1)) + wpos_private_
                = Len(H.written)
    /\ (P.call = "write_cont" /\ P.segs # {}) =>
          /\ P.segs = {Back(buf_).id}
          /\ wpos_private_ >= P.slen
          /\ Bytes(Back(buf_).blk, wpos_private_ - P.slen, P.slen)
                = LastWritten(P.slen)
    /\ (P.call = "ensure_cont" /\ P.pc = "idle") =>
          P.slen <= BlockSize - wpos_private_

\* a write_cont of MaxDatum bytes that found less room than that in the tail
\* block has closed it and put its bytes at the start of a second segment
ContiguousWriteWitness ==
    /\ P.call = "write_cont" /\ P.slen = MaxDatum /\ P.segs = {2}
    /\ Len(buf_) = 2 /\ Front(buf_).end > BlockSize - MaxDatum
    /\ Front(buf_).end < BlockSize
    /\ wpos_private_ = MaxDatum

\* C12: single-segment datum.  The bytes that one call of write (write<T>)
\* or write_cont copies, for a datum no longer than a block, all go to one
\* segment.
SingleSegmentDatum ==
    P.call \in {"write", "write_cont"} => Cardinality(P.segs) <= 1

\* C13: fd error contract.  input_from_fd and output_to_fd return a negative
\* value exactly when ::read / ::write failed with no byte transferred in
\* the call; otherwise they return the number of bytes the call transferred,
\* which is positive when the failure came after a transfer and 0 when the
\* call ended on a transfer of no byte with nothing transferred.
FdErrorContract ==
    /\ (P.call = "input_from_fd" /\ P.pc = "idle") =>
          /\ P.total < 0 <=> (P.err /\ P.moved = 0)
          /\ P.total >= 0 => P.total = P.moved
    /\ (C.call = "output_to_fd" /\ C.pc \in {"clear", "idle"}) =>
          /\ C.total < 0 <=> (C.err /\ C.moved = 0)
          /\ C.total >= 0 => C.total = C.moved

\* both calls have ended on a failure that came after bytes were
\* transferred, and return the counts of those bytes
FdErrorContractWitness ==
    /\ P.call = "input_from_fd" /\ P.pc = "idle" /\ P.err /\ P.total > 0
    /\ C.call = "output_to_fd" /\ C.pc = "clear" /\ C.err /\ C.total > 0

\* the number of preserved segments the running clear_preserved has released
Released == Len(C.snap) - Len(preserved_list_)

\* C14: clear_preserved(n) releases exactly the longest prefix of the
\* preserved list whose ends sum to at most n.  While the call runs, the
\* preserved list is what it was at the call less a prefix whose ends sum to
\* cleared_len <= n; a step of the call either appends the block of the
\* first preserved segment to the freelist and drops that segment, or ends
\* the call, and it ends the call only when the preserved list is empty or
\* its first segment no longer fits in n; no step of the call changes the
\* live segments, rpos_ or the published write position.
ClearPreservedExact ==
    [][(C.pc = "clear") =>
         /\ Released >= 0
         /\ preserved_list_ = SubSeq(C.snap, Released + 1, Len(C.snap))
         /\ C.cleared_len = SumEnds(SubSeq(C.snap, 1, Released))
         /\ C.cleared_len <= C.len
         /\ C' # C =>
               /\ buf_' = buf_ /\ rpos_' = rpos_ /\ wpos_' = wpos_ /\ mem' = mem
               /\ \/ /\ C'.pc = "clear"
                     /\ preserved_list_ # <<>>
                     /\ preserved_list_' = Tail(preserved_list_)
                     /\ free_list_' = Append(free_list_, Front(preserved_list_).blk)
                  \/ /\ C'.pc = "idle"
                     /\ preserved_list_' = preserved_list_
                     /\ free_list_' = free_list_
                     /\ \/ preserved_list_ = <<>>
                        \/ C.cleared_len + Front(preserved_list_).end > C.len
    ]_vars

\* a clear_preserved(n) that has released the first of two preserved
\* segments and finds that the second does not fit in n
ClearPreservedExactWitness ==
    /\ C.pc = "clear" /\ C.call = "clear_preserved"
    /\ Len(C.snap) = 2 /\ Len(preserved_list_) = 1
    /\ C.cleared_len + Front(preserved_list_).end > C.len

\* C15: value-returning reads release what they consume.  For a consumer
\* that reads with get<T>() / get_cont() only, a segment popped into the
\* preserved list is released by the clear_preserved of the operation that
\* popped it or can be released by that of a later one: when an operation has
\* returned, the first preserved segment, if any, is no longer than the
\* largest byte count these operations pass to clear_preserved.
ValueReadsRelease ==
    (H.use = "get" /\ C.pc = "idle" /\ preserved_list_ # <<>>) =>
        Front(preserved_list_).end <= MaxDatum

\* C16: segment reuse.  In rounds in which the producer fills several
\* segments and the consumer drains them and calls clear_preserved with the
\* byte count it drained, the number of blocks allocated is, at the end of
\* every round after the first FirstRounds, what it was at the end of round
\* FirstRounds.
SegmentReuse ==
    \A r \in 1 .. Len(H.allocs) :
        r > FirstRounds => H.allocs[r] = H.allocs[FirstRounds]

\* C17: a call of empty() that returns true began when one segment was
\* published and rpos_ was its published write position (which no step of
\* the producer makes true), a call that returns false returns when that is
\* not so, and a call begun after a notified write of at least one byte
\* returned, with bytes of it not yet consumed, returns false.
EmptyContract ==
    (C.call = "empty" /\ C.pc = "idle") =>
        /\ C.res => C.was
        /\ ~C.res => ~EmptyNow
        /\ C.unread => ~C.res

\* C18: in modes 2, 3, 4 and 5, when notify() signals cv_ or writes to the
\* eventfd, the same call of notify() has made its release-store of *wpos_,
\* and that store published at least one byte that was not published when
\* notify() was called.
NotifyOrdering ==
    (mode \in {2, 3, 4, 5} /\ P.pc = "signal") =>
        /\ P.stored
        /\ P.newb >= 1

\* C19: given the same write, write_cont, read<T>() and output_to_fd calls by
\* one thread, with an fd that accepts every byte, a BlockBuffer has
\* delivered, whenever both are between calls, the bytes an SPSCBlockBuffer
\* of mode 0 has delivered, in the same order; and a call of
\* BlockBuffer::output_to_fd made while bytes are unread transfers at least
\* one byte.
SameAsSPSC ==
    (P.pc = "idle" /\ C.pc = "idle") =>
        /\ bb.readout = H.readout
        /\ bb.fdout = H.fdout
        /\ (bb.call = "output_to_fd" /\ bb.unread > 0) => bb.total >= 1

\* C20: a call of BlockBuffer::clear_preserved(n) releases the longest prefix
\* of the preserved segments whose ends sum to at most n, as
\* SPSCBlockBuffer::clear_preserved does, and never calls front() on an
\* empty preserved list.
BBClearPreserved ==
    /\ ~bb.empty_front
    /\ bb.call = "clear_preserved" =>
          LET k == Len(bb.snap) - Len(bb.preserved_list_) IN
          /\ bb.preserved_list_ = SubSeq(bb.snap, k + 1, Len(bb.snap))
          /\ SumEnds(SubSeq(bb.snap, 1, k)) <= bb.len
          /\ k < Len(bb.snap) => SumEnds(SubSeq(bb.snap, 1, k + 1)) > bb.len

\* C21: in every mode the segment queue buf_ holds at least one segment, the
\* consumer is about to run pop_block only when a segment is linked behind the
\* front one, and whenever the producer is between calls wpos_ points to the
\* end field of the back segment.
SegmentListNeverEmpty ==
    /\ Len(buf_) >= 1
    /\ C.pc = "pop_block" => Len(buf_) >= 2
    /\ P.pc = "idle" => wpos_ = Back(buf_).id

SegmentListNeverEmptyWitness ==
    /\ C.pc = "pop_block" /\ Len(buf_) = 2 /\ one_block_left_
    /\ P.pc = "idle" /\ wpos_ = 2
    /\ mode = 2

\* C22: whenever one_block_left_ is false, buf_ holds more than one segment
\* and wpos_, the only pointer the producer stores an end through, does not
\* point to the front segment; no step changes the end of the front segment
\* while the flag is false.
OneBlockLeftHysteresis ==
    [][/\ ~one_block_left_ =>
            /\ Len(buf_) >= 2
            /\ wpos_ # Front(buf_).id
            /\ Front(buf_').id = Front(buf_).id
                  => Front(buf_').end = Front(buf_).end
       /\ ~one_block_left_' =>
            /\ Len(buf_') >= 2
            /\ wpos_' # Front(buf_').id]_vars

OneBlockLeftHysteresisWitness ==
    /\ ~one_block_left_
    /\ C.pc = "pbn" /\ C.call = "read_cont"
    /\ P.pc = "notify"
    /\ Len(buf_) = 2

\* C23: whenever empty() has returned false and the consumer has not popped
\* since, and whenever the consumer is at the body of front() or pop(),
\* head_->next is a node that the producer has constructed, with the payload
\* given to push, and that is not the node a push in progress has linked but
\* not yet published by its store of tail_.
PublicationSafe ==
    (qc_pc = "body" \/ (qc_known /\ qc_pc \in {"idle", "check"})) =>
        /\ head_ # tail_
        /\ next[head_] # Null
        /\ next[head_] # QPending
        /\ life[next[head_]] >= 1
        /\ obj[next[head_]] = Len(got) + 1

PublicationSafeWitness ==
    /\ qc_pc = "body" /\ qc_op = "front"
    /\ qp_pc = "construct"
    /\ Len(got) = 1

\* C24: no node is in the main list and in the freelist; the node a push
\* takes from the freelist is one that a completed pop released (it is not
\* free_tail_ and not the node a pop in progress is linking); and no field of
\* a node is accessed by both threads at once with one of them writing.
FreelistExclusive ==
    /\ QMainNodes \cap QFreeNodes = {}
    /\ (qp_pc = "link" /\ ~qp_fle) =>
          /\ free_head_ # free_tail_
          /\ qc_pc = "release" => free_head_ # next[free_tail_]
    /\ ~QConflict

FreelistExclusiveWitness ==
    /\ qp_pc = "construct"
    /\ qc_pc = "body" /\ qc_op = "pop"
    /\ life[next[tail_]] = 0

\* C25: once a pop() has unlinked an element, the payload of the node that
\* carried that element (the node front() pointed into, which is head_ from
\* then on) is destroyed, and when pop() has returned that node is the one
\* at the end of the freelist.
PopDestroysFront ==
    (Len(got) > 0 /\ qc_pc # "release") =>
        /\ life[head_] = 0
        /\ free_tail_ = head_

\* C28: the obj of every node is constructed only when it is not alive and
\* destroyed only when it is alive (its constructions exceed its
\* destructions by 0 or 1), and once the queue is destroyed no obj is alive.
PayloadLifecycle ==
    /\ \A n \in QNodes : life[n] \in {0, 1}
    /\ qp_pc = "destroyed" => \A n \in QNodes : life[n] = 0

\* C26: in a call input_from_fd(fd, cont, max_len) with max_len >= 0 the
\* total read never exceeds max_len, each ::read is asked for at most
\* max_len minus the total read so far, a call with cont = true moves no
\* byte after its first successful ::read, and the call returns.
InputLengthCap ==
    /\ []((P.call = "input_from_fd" /\ P.max >= 0) =>
            /\ P.total <= P.max
            /\ P.pc = "in_read" =>
                  InputCount >= 0 /\ InputCount <= P.max - P.total)
    /\ [][(P.call = "input_from_fd" /\ P.cont /\ P.moved > 0) =>
              P'.moved <= P.moved]_vars
    /\ (P.call = "input_from_fd" /\ P.max >= 0 /\ P.pc # "idle")
            ~> (P.pc = "idle")

\* a ::read asked for 0 bytes because max_len is reached, with room left in
\* the block and input left on the descriptor
InputLengthCapWitness ==
    /\ P.call = "input_from_fd" /\ P.pc = "in_read" /\ ~P.cont
    /\ P.max = BlockSize - 1 /\ P.total = P.max /\ InputCount = 0
    /\ wpos_private_ < BlockSize /\ Len(H.fdin) < MaxFd

\* C27: when a call of empty() has returned false, at least one published
\* byte is unread; a tail segment that holds no published byte does not
\* make empty() return false.
EmptySoundGuard ==
    (C.call = "empty" /\ C.pc = "idle" /\ ~C.res) => PublishedUnread >= 1

====

